---- MODULE Spec2Model ----
(***************************************************************************)
(* Model of the schedule-construction engine of CollegeHelper.             *)
(*                                                                         *)
(* Two implementations are modelled side by side:                          *)
(*   "SubjectScheduler"  src/antigo/scripts/subject_scheduler.py           *)
(*   "SchedulerService"  src/backend/services/scheduler_service.py         *)
(*                                                                         *)
(* Times of day are minutes since midnight.  A schedule string is modelled *)
(* by its structure: the sequence of comma-separated segments, each the    *)
(* sequence of its whitespace-separated tokens; the time-range token is    *)
(* the sequence of the pieces between its '-' characters.  Day tokens and  *)
(* time pieces stay strings and are converted by the tables below.         *)
(***************************************************************************)
EXTENDS Integers, Sequences, FiniteSets, TLC

VARIABLES
    impl,                 \* which implementation runs
    catalog,              \* rows returned by the subject catalog
    catalog_ok,           \* FALSE: reading the catalog raises
    student_preferences,  \* rows of the preference store (subject_name, interest_level)
    preferences,          \* the SchedulingPreferences request
    pc,                   \* position inside create_optimal_schedule
    available_subjects,   \* output of the assembler
    compatible_subjects,  \* output of the availability filter
    recommended_subjects, \* output of the strategy ranker
    final_schedule,       \* greedy pass: admitted subjects, in admission order
    used_time_slots,      \* greedy pass: slots of the admitted subjects
    idx,                  \* greedy pass: position of the next candidate
    analysis,             \* output of the analyzer
    exc,                  \* exception in flight ("" when none)
    result,               \* what create_optimal_schedule returned / raised
    slot_a, slot_b,       \* TimeSlot.overlaps_with: the two operands
    overlap_ab, overlap_ba, \* TimeSlot.overlaps_with: self.overlaps_with(other), both ways
    grade_horaria,        \* rows of table grade_horaria (id, student_id, semester, status)
    grade_id_seq,         \* last id the table's sequence has issued
    grade_horaria_subjects, \* rows of table grade_horaria_subjects (grade_id, subject_id)
    req                   \* per client: the HTTP request it has in flight, and its response

vars == <<impl, catalog, catalog_ok, student_preferences, preferences, pc,
          available_subjects, compatible_subjects, recommended_subjects,
          final_schedule, used_time_slots, idx, analysis, exc, result,
          slot_a, slot_b, overlap_ab, overlap_ba, grade_horaria, grade_id_seq,
          grade_horaria_subjects, req>>

schedVars == <<impl, catalog, catalog_ok, student_preferences, preferences, pc,
               available_subjects, compatible_subjects, recommended_subjects,
               final_schedule, used_time_slots, idx, analysis, exc, result>>

overlapVars == <<slot_a, slot_b, overlap_ab, overlap_ba>>

httpVars == <<grade_horaria, grade_id_seq, grade_horaria_subjects, req>>

(***************************************************************************)
(* Bounds of the model.                                                    *)
(***************************************************************************)
MaxSubjects == 3      \* longest list of subjects handed to a stage
MaxCount    == 3      \* largest requested subject_count
MaxCatalog  == 2      \* most catalog rows in a full run
MaxUploaded == 1      \* most uploaded records in a full run

(***************************************************************************)
(* Program constants.                                                      *)
(***************************************************************************)
UploadedIdOffset == 1000
DefaultCredits == 3
DefaultDifficulty == 3

Implementations == {"SubjectScheduler", "SchedulerService"}

Strategies == {"maximize_subjects", "clear_dependencies", "balanced_difficulty",
               "interest_based", "high_value_credits"}

(***************************************************************************)
(* Sequence helpers.                                                       *)
(***************************************************************************)
SeqsUpTo(S, n) == UNION {[1..k -> S] : k \in 0..n}

Range(s) == {s[i] : i \in 1..Len(s)}

RECURSIVE SumSeq(_)
SumSeq(s) == IF s = <<>> THEN 0 ELSE Head(s) + SumSeq(Tail(s))

RECURSIVE Concat(_)
Concat(ss) == IF ss = <<>> THEN <<>> ELSE Head(ss) \o Concat(Tail(ss))

\* Lexicographic order on equal-length tuples of integers (Python tuple compare).
RECURSIVE LexLess(_, _)
LexLess(k1, k2) ==
    IF k1 = <<>> THEN FALSE
    ELSE IF Head(k1) < Head(k2) THEN TRUE
    ELSE IF Head(k1) > Head(k2) THEN FALSE
    ELSE LexLess(Tail(k1), Tail(k2))

\* Insert index i into the index list p (sorted by keys): after every entry whose
\* key is not greater, which is what makes the sort stable.
RECURSIVE InsertByKey(_, _, _)
InsertByKey(i, p, keys) ==
    IF p = <<>> THEN <<i>>
    ELSE IF LexLess(keys[i], keys[Head(p)]) THEN <<i>> \o p
    ELSE <<Head(p)>> \o InsertByKey(i, Tail(p), keys)

RECURSIVE SortIndices(_, _)
SortIndices(n, keys) ==
    IF n = 0 THEN <<>> ELSE InsertByKey(n, SortIndices(n - 1, keys), keys)

\* Python's sorted(s, key=...): keys[i] is the key of s[i]; the sort is stable.
sorted(s, keys) ==
    LET p == SortIndices(Len(s), keys) IN [i \in 1..Len(s) |-> s[p[i]]]

(***************************************************************************)
(* Times of day and day names.                                             *)
(***************************************************************************)
\* datetime.strptime(s, '%H:%M').time() on the time pieces the model uses;
\* any other piece (such as "" or "9h") makes strptime raise ValueError.
TimePieces == {"09:00", "10:00", "10:30", "11:00", "12:00"}

strptime(s) ==
    CASE s = "09:00" -> 540
      [] s = "10:00" -> 600
      [] s = "10:30" -> 630
      [] s = "11:00" -> 660
      [] s = "12:00" -> 720

\* str.lower() and str.title() on the day tokens the model uses.
DayTokens == {"Mon", "mon", "MONDAY", "Monday", "Tue", "Tuesday", "Seg"}

lower(tok) ==
    CASE tok \in {"Mon", "mon"} -> "mon"
      [] tok \in {"MONDAY", "Monday"} -> "monday"
      [] tok = "Tue" -> "tue"
      [] tok = "Tuesday" -> "tuesday"
      [] tok = "Seg" -> "seg"

title(tok) ==
    CASE tok \in {"Mon", "mon"} -> "Mon"
      [] tok \in {"MONDAY", "Monday"} -> "Monday"
      [] tok = "Tue" -> "Tue"
      [] tok = "Tuesday" -> "Tuesday"
      [] tok = "Seg" -> "Seg"

\* SubjectScheduler._normalize_day_name: day_mapping.get(day.lower(), day.title())
normalize_day_name(day) ==
    CASE lower(day) \in {"mon", "monday"} -> "Monday"
      [] lower(day) \in {"tue", "tuesday"} -> "Tuesday"
      [] OTHER -> title(day)

(***************************************************************************)
(* TimeSlot.                                                               *)
(***************************************************************************)
TimeSlot(d, s, e) == [day |-> d, start_time |-> s, end_time |-> e]

\* A faulty variant of overlaps_with: touching slots count as overlapping.
overlaps_with_touching(self, other) ==
    IF self.day # other.day THEN FALSE
    ELSE ~(self.end_time < other.start_time \/ self.start_time > other.end_time)

\* TimeSlot.overlaps_with of SubjectScheduler's module
overlaps_with(self, other) ==
    IF self.day # other.day THEN FALSE
    ELSE ~(self.end_time <= other.start_time \/ self.start_time >= other.end_time)

\* TimeSlot.overlaps_with of SchedulerService's module
overlaps_with_service(self, other) ==
    IF self.day # other.day THEN FALSE
    ELSE ~(self.end_time <= other.start_time \/ self.start_time >= other.end_time)

Overlaps(im, self, other) ==
    IF im = "SubjectScheduler" THEN overlaps_with(self, other)
    ELSE overlaps_with_service(self, other)

\* TimeSlot.duration_hours, in minutes (the code divides the seconds by 3600)
duration_minutes(self) == self.end_time - self.start_time

(***************************************************************************)
(* Schedule-string parser.                                                 *)
(*                                                                         *)
(* A segment (one piece of schedule_str.split(',') after strip()) is       *)
(*   [ntokens |-> number of whitespace-separated tokens,                   *)
(*    day |-> tokens[0], pieces |-> tokens[1].split('-')]                  *)
(* so Len(pieces) = 1 says that tokens[1] holds no '-'.                    *)
(***************************************************************************)
Segment(n, d, ps) == [ntokens |-> n, day |-> d, pieces |-> ps]

BlankSegment == Segment(0, "", <<>>)

\* The segment raises inside the try block: the unpacking of a split that has
\* not exactly two pieces, or strptime on a piece that is no HH:MM time.
SegmentRaises(seg) ==
    /\ seg.ntokens >= 2
    /\ Len(seg.pieces) >= 2
    /\ \/ Len(seg.pieces) # 2
       \/ seg.pieces[1] \notin TimePieces
       \/ seg.pieces[2] \notin TimePieces

SegmentHasSlot(seg) ==
    seg.ntokens >= 2 /\ Len(seg.pieces) >= 2 /\ ~SegmentRaises(seg)

\* SubjectScheduler._parse_subject_schedule: the loop from segment i on, with the
\* slots collected so far; an exception ends the loop and keeps what was collected.
RECURSIVE parse_subject_schedule_from(_, _, _)
parse_subject_schedule_from(segs, i, time_slots) ==
    IF i > Len(segs) THEN time_slots
    ELSE IF SegmentRaises(segs[i]) THEN time_slots
    ELSE IF SegmentHasSlot(segs[i])
         THEN parse_subject_schedule_from(segs, i + 1,
                  Append(time_slots,
                         TimeSlot(normalize_day_name(segs[i].day),
                                  strptime(segs[i].pieces[1]),
                                  strptime(segs[i].pieces[2]))))
         ELSE parse_subject_schedule_from(segs, i + 1, time_slots)

parse_subject_schedule(schedule_str) ==
    IF schedule_str = <<>> THEN <<>>
    ELSE parse_subject_schedule_from(schedule_str, 1, <<>>)

\* SchedulerService._parse_schedule: the same loop, the day token kept as written.
RECURSIVE parse_schedule_from(_, _, _)
parse_schedule_from(segs, i, slots) ==
    IF i > Len(segs) THEN slots
    ELSE IF SegmentRaises(segs[i]) THEN slots
    ELSE IF SegmentHasSlot(segs[i])
         THEN parse_schedule_from(segs, i + 1,
                  Append(slots,
                         TimeSlot(segs[i].day,
                                  strptime(segs[i].pieces[1]),
                                  strptime(segs[i].pieces[2]))))
         ELSE parse_schedule_from(segs, i + 1, slots)

parse_schedule(schedule_str) ==
    IF schedule_str = <<>> THEN <<>>
    ELSE parse_schedule_from(schedule_str, 1, <<>>)

ParseSchedule(im, schedule_str) ==
    IF im = "SubjectScheduler" THEN parse_subject_schedule(schedule_str)
    ELSE parse_schedule(schedule_str)

(***************************************************************************)
(* Prerequisite-string parser.  A prerequisites string is the sequence of  *)
(* its tokens, a token being a name or one of the delimiters; a piece of   *)
(* the string is again a sequence of tokens, and the name n is <<n>>.      *)
(***************************************************************************)
Delimiters == <<",", ";", "|">>

\* str.split(delim) on a token sequence
RECURSIVE split_from(_, _, _, _, _)
split_from(str, delim, i, cur, acc) ==
    IF i > Len(str) THEN Append(acc, cur)
    ELSE IF str[i] = delim THEN split_from(str, delim, i + 1, <<>>, Append(acc, cur))
    ELSE split_from(str, delim, i + 1, Append(cur, str[i]), acc)

split(str, delim) == split_from(str, delim, 1, <<>>, <<>>)

NonEmpty(parts) == SelectSeq(parts, LAMBDA p : p # <<>>)

FirstDelimiter(str) ==
    IF Delimiters[1] \in Range(str) THEN 1
    ELSE IF Delimiters[2] \in Range(str) THEN 2
    ELSE IF Delimiters[3] \in Range(str) THEN 3
    ELSE 0

\* SubjectScheduler._parse_prerequisites
parse_prerequisites(prerequisites_str) ==
    IF prerequisites_str = <<>> THEN <<>>
    ELSE LET d == FirstDelimiter(prerequisites_str)
             prerequisites == IF d # 0 THEN split(prerequisites_str, Delimiters[d])
                              ELSE <<prerequisites_str>>
         IN  NonEmpty(prerequisites)

\* SchedulerService._parse_prereqs
parse_prereqs(prereqs) ==
    IF prereqs = <<>> THEN <<>>
    ELSE LET d == FirstDelimiter(prereqs)
         IN  IF d # 0 THEN NonEmpty(split(prereqs, Delimiters[d]))
             ELSE <<prereqs>>

ParsePrerequisites(im, str) ==
    IF im = "SubjectScheduler" THEN parse_prerequisites(str) ELSE parse_prereqs(str)

(***************************************************************************)
(* Subjects and the catalog assembler.                                     *)
(***************************************************************************)
Subject(i, n, cat, cr, dl, pre, ts) ==
    [id |-> i, name |-> n, category |-> cat, credits |-> cr,
     difficulty_level |-> dl, prerequisites |-> pre, time_slots |-> ts]

\* One catalog row -> Subject (the loop body over the catalog rows)
SubjectOfRow(im, row) ==
    Subject(row.id, row.name, row.category, row.credits, row.difficulty_level,
            ParsePrerequisites(im, row.prerequisites),
            ParseSchedule(im, row.schedule))

\* One uploaded record -> Subject; n is len(subjects) at that moment
SubjectOfUpload(im, u, n) ==
    Subject(n + UploadedIdOffset, u.name,
            IF u.has_category THEN u.category ELSE "Uploaded",
            IF u.has_credits THEN u.credits ELSE DefaultCredits,
            IF u.has_difficulty THEN u.difficulty ELSE DefaultDifficulty,
            <<>>,
            ParseSchedule(im, u.schedule))

RECURSIVE AppendUploads(_, _, _, _)
AppendUploads(im, uploads, i, subjects) ==
    IF i > Len(uploads) THEN subjects
    ELSE AppendUploads(im, uploads, i + 1,
             Append(subjects, SubjectOfUpload(im, uploads[i], Len(subjects))))

\* The exception _get_available_subjects raises ("" when it returns): reading the
\* catalog fails, or an uploaded record has no 'name' key.
get_available_subjects_raises(rows_ok, prefs) ==
    IF ~rows_ok THEN "DatabaseError"
    ELSE IF \E i \in 1..Len(prefs.uploaded_subjects) :
                ~prefs.uploaded_subjects[i].has_name THEN "KeyError"
    ELSE ""

\* _get_available_subjects of either implementation (they differ in the parsers)
get_available_subjects(im, rows, prefs) ==
    AppendUploads(im, prefs.uploaded_subjects, 1,
                  [i \in 1..Len(rows) |-> SubjectOfRow(im, rows[i])])

(***************************************************************************)
(* Availability filter.                                                    *)
(***************************************************************************)
\* {av.day: av for av in availability if av.available}: the position of the entry
\* the dictionary keeps for a day (the last available one), 0 when there is none.
availability_map(availability, day) ==
    LET hits == {i \in 1..Len(availability) :
                    availability[i].day = day /\ availability[i].available}
    IN  IF hits = {} THEN 0 ELSE CHOOSE i \in hits : \A j \in hits : j <= i

\* A faulty variant of slot_fits: only the start of the slot is compared.
slot_fits_start_only(availability, subject_slot) ==
    LET k == availability_map(availability, subject_slot.day) IN
    /\ k # 0
    /\ \E j \in 1..Len(availability[k].time_slots) :
          availability[k].time_slots[j].start_time <= subject_slot.start_time

\* The body of the filter's inner loop: the day is in the map and one window of
\* that entry contains the slot.
slot_fits(availability, subject_slot) ==
    LET k == availability_map(availability, subject_slot.day) IN
    /\ k # 0
    /\ \E j \in 1..Len(availability[k].time_slots) :
          /\ availability[k].time_slots[j].start_time <= subject_slot.start_time
          /\ availability[k].time_slots[j].end_time >= subject_slot.end_time

\* A faulty variant of is_compatible: a subject needs a slot to be compatible.
is_compatible_needs_slot(availability, subject) ==
    /\ subject.time_slots # <<>>
    /\ \A i \in 1..Len(subject.time_slots) : slot_fits(availability, subject.time_slots[i])

is_compatible(availability, subject) ==
    \A i \in 1..Len(subject.time_slots) : slot_fits(availability, subject.time_slots[i])

\* SubjectScheduler._filter_compatible_subjects
filter_compatible_subjects(subjects, availability) ==
    SelectSeq(subjects, LAMBDA s : is_compatible(availability, s))

\* SchedulerService._filter_compatible
filter_compatible(subjects, availability) ==
    SelectSeq(subjects, LAMBDA s : is_compatible(availability, s))

FilterCompatible(im, subjects, availability) ==
    IF im = "SubjectScheduler" THEN filter_compatible_subjects(subjects, availability)
    ELSE filter_compatible(subjects, availability)

(***************************************************************************)
(* Strategy ranker.                                                        *)
(***************************************************************************)
total_minutes(subject) ==
    SumSeq([i \in 1..Len(subject.time_slots) |-> duration_minutes(subject.time_slots[i])])

\* A faulty variant of strategy_maximize_subjects: the longest subjects first.
strategy_maximize_subjects_longest_first(subjects) ==
    sorted(subjects, [i \in 1..Len(subjects) |->
                         <<-total_minutes(subjects[i]), -subjects[i].credits>>])

\* key (total_hours, -credits)
strategy_maximize_subjects(subjects) ==
    sorted(subjects, [i \in 1..Len(subjects) |->
                         <<total_minutes(subjects[i]), -subjects[i].credits>>])

\* A faulty variant of dependency_count: the prerequisites the named subject has.
dependency_count_own(subjects, name) ==
    Cardinality({<<j, q>> \in (1..Len(subjects)) \X (1..MaxSubjects + 1) :
                    /\ subjects[j].name = name
                    /\ q <= Len(subjects[j].prerequisites)})

\* dependency_count[name]: how many subjects of the list name it as a prerequisite
dependency_count(subjects, name) ==
    Cardinality({j \in 1..Len(subjects) : <<name>> \in Range(subjects[j].prerequisites)})

\* key (-dependency_count, difficulty_level)
strategy_clear_dependencies(subjects) ==
    sorted(subjects, [i \in 1..Len(subjects) |->
                         <<-dependency_count(subjects, subjects[i].name),
                           subjects[i].difficulty_level>>])

Levels(subjects) == {subjects[i].difficulty_level : i \in 1..Len(subjects)}

\* sorted(difficulty_groups.keys())
RECURSIVE SortedLevels(_)
SortedLevels(ls) ==
    IF ls = {} THEN <<>>
    ELSE LET m == CHOOSE x \in ls : \A y \in ls : x <= y
         IN  <<m>> \o SortedLevels(ls \ {m})

\* group[:n]
Take(s, n) == SubSeq(s, 1, IF n < Len(s) THEN n ELSE Len(s))

\* SubjectScheduler._strategy_balanced_difficulty raises ZeroDivisionError when
\* there is no group to divide by.
strategy_balanced_difficulty_raises(subjects) == Levels(subjects) = {}

\* SubjectScheduler._strategy_balanced_difficulty (for a non-empty list)
strategy_balanced_difficulty(subjects, prefs) ==
    LET levels == SortedLevels(Levels(subjects))
        max_per_level == (prefs.subject_count \div Len(levels)) + 1
        group(l) ==
            LET g == SelectSeq(subjects, LAMBDA x : x.difficulty_level = l)
            IN  Take(sorted(g, [i \in 1..Len(g) |-> <<-g[i].credits>>]), max_per_level)
    IN  Concat([k \in 1..Len(levels) |-> group(levels[k])])

\* SchedulerService._apply_strategy, BALANCED_DIFFICULTY: key (difficulty_level, -credits)
apply_strategy_balanced(subjects) ==
    sorted(subjects, [i \in 1..Len(subjects) |->
                         <<subjects[i].difficulty_level, -subjects[i].credits>>])

\* interest_map.get(name, 0): the dictionary keeps the last row of a name
interest_of(prefs_rows, name) ==
    LET hits == {i \in 1..Len(prefs_rows) : prefs_rows[i].subject_name = name}
    IN  IF hits = {} THEN 0
        ELSE prefs_rows[CHOOSE i \in hits : \A j \in hits : j <= i].interest_level

\* SubjectScheduler._strategy_interest_based: key (-interest, -credits)
strategy_interest_based(subjects, prefs_rows) ==
    sorted(subjects, [i \in 1..Len(subjects) |->
                         <<-interest_of(prefs_rows, subjects[i].name),
                           -subjects[i].credits>>])

\* SchedulerService._apply_strategy, the else branch: key (-credits)
apply_strategy_default(subjects) ==
    sorted(subjects, [i \in 1..Len(subjects) |-> <<-subjects[i].credits>>])

\* A faulty variant of the high_value_credits key: credits ascending.
high_value_credits_key_ascending(subject) ==
    <<subject.credits, subject.difficulty_level>>

\* key (-credits, difficulty_level) of high_value_credits, in both implementations
high_value_credits_key(subject) ==
    <<-subject.credits, subject.difficulty_level>>

strategy_high_value_credits(subjects) ==
    sorted(subjects, [i \in 1..Len(subjects) |-> high_value_credits_key(subjects[i])])

\* SubjectScheduler._apply_scheduling_strategy
apply_scheduling_strategy(subjects, prefs, prefs_rows) ==
    CASE prefs.strategy = "maximize_subjects" -> strategy_maximize_subjects(subjects)
      [] prefs.strategy = "clear_dependencies" -> strategy_clear_dependencies(subjects)
      [] prefs.strategy = "balanced_difficulty" -> strategy_balanced_difficulty(subjects, prefs)
      [] prefs.strategy = "interest_based" -> strategy_interest_based(subjects, prefs_rows)
      [] prefs.strategy = "high_value_credits" -> strategy_high_value_credits(subjects)
      [] OTHER -> strategy_interest_based(subjects, prefs_rows)

\* SchedulerService._apply_strategy
apply_strategy(subjects, prefs) ==
    CASE prefs.strategy = "maximize_subjects" -> strategy_maximize_subjects(subjects)
      [] prefs.strategy = "clear_dependencies" -> strategy_clear_dependencies(subjects)
      [] prefs.strategy = "balanced_difficulty" -> apply_strategy_balanced(subjects)
      [] prefs.strategy = "high_value_credits" -> strategy_high_value_credits(subjects)
      [] OTHER -> apply_strategy_default(subjects)

\* The exception the ranker raises ("" when it returns)
ApplyStrategyRaises(im, subjects, prefs) ==
    IF /\ im = "SubjectScheduler"
       /\ prefs.strategy = "balanced_difficulty"
       /\ strategy_balanced_difficulty_raises(subjects)
    THEN "ZeroDivisionError" ELSE ""

ApplyStrategy(im, subjects, prefs, prefs_rows) ==
    IF im = "SubjectScheduler" THEN apply_scheduling_strategy(subjects, prefs, prefs_rows)
    ELSE apply_strategy(subjects, prefs)

(***************************************************************************)
(* Conflict resolver: the pieces of one loop iteration.                    *)
(***************************************************************************)
\* A faulty variant of target_reached: one subject too many is let in.
target_reached_late(final, prefs) == Len(final) > prefs.subject_count

\* len(final_schedule) >= preferences.subject_count
target_reached(final, prefs) == Len(final) >= prefs.subject_count

\* A faulty variant of has_conflict: only the candidate's first slot is compared.
has_conflict_first_slot(im, subject, used) ==
    /\ subject.time_slots # <<>>
    /\ \E j \in 1..Len(used) : Overlaps(im, subject.time_slots[1], used[j])

\* has_conflict (SubjectScheduler) / conflict (SchedulerService)
has_conflict(im, subject, used) ==
    \E i \in 1..Len(subject.time_slots) : \E j \in 1..Len(used) :
        Overlaps(im, subject.time_slots[i], used[j])

\* A faulty variant of missing_prerequisites: only the first prerequisite is looked up.
missing_prerequisites_first_only(subject, final) ==
    SelectSeq(Take(subject.prerequisites, 1),
              LAMBDA prereq : ~\E k \in 1..Len(final) : <<final[k].name>> = prereq)

\* missing_prerequisites of SubjectScheduler's loop body
missing_prerequisites(subject, final) ==
    SelectSeq(subject.prerequisites,
              LAMBDA prereq : ~\E k \in 1..Len(final) : <<final[k].name>> = prereq)

\* SubjectScheduler skips a candidate with missing prerequisites when
\* prioritize_dependencies is set; SchedulerService has no such test.
skipped_for_prerequisites(im, subject, final, prefs) ==
    /\ im = "SubjectScheduler"
    /\ prefs.prioritize_dependencies
    /\ missing_prerequisites(subject, final) # <<>>

\* A faulty variant of admits: the prerequisite test is applied whether or not
\* prioritize_dependencies is set.
admits_prerequisites_always(im, subject, final, used, prefs) ==
    /\ ~(im = "SubjectScheduler" /\ missing_prerequisites(subject, final) # <<>>)
    /\ ~has_conflict(im, subject, used)

admits(im, subject, final, used, prefs) ==
    /\ ~skipped_for_prerequisites(im, subject, final, prefs)
    /\ ~has_conflict(im, subject, used)

\* _create_conflict_free_schedule / _resolve_conflicts as a function of the ranked
\* list: the loop from candidate i on, with the lists built so far.
RECURSIVE create_conflict_free_schedule_from(_, _, _, _, _, _)
create_conflict_free_schedule_from(im, subjects, i, final, used, prefs) ==
    IF i > Len(subjects) \/ target_reached(final, prefs) THEN final
    ELSE IF admits(im, subjects[i], final, used, prefs)
         THEN create_conflict_free_schedule_from(im, subjects, i + 1,
                  Append(final, subjects[i]), used \o subjects[i].time_slots, prefs)
         ELSE create_conflict_free_schedule_from(im, subjects, i + 1, final, used, prefs)

\* the schedule the four stages of create_optimal_schedule build when none raises
create_optimal_schedule(im, rows, prefs, prefs_rows) ==
    create_conflict_free_schedule_from(im,
        ApplyStrategy(im,
            FilterCompatible(im, get_available_subjects(im, rows, prefs),
                             prefs.weekly_availability),
            prefs, prefs_rows),
        1, <<>>, <<>>, prefs)

(***************************************************************************)
(* Schedule analyzer.                                                      *)
(***************************************************************************)
OverloadHours == 40
HighAverageDifficulty == 4
MinCategories == 2

Warning(t, n, m) == [text |-> t, n |-> n, m |-> m]

Categories(schedule) == {schedule[i].category : i \in 1..Len(schedule)}

schedule_minutes(schedule) ==
    SumSeq([i \in 1..Len(schedule) |-> total_minutes(schedule[i])])

schedule_credits(schedule) ==
    SumSeq([i \in 1..Len(schedule) |-> schedule[i].credits])

schedule_difficulty(schedule) ==
    SumSeq([i \in 1..Len(schedule) |-> schedule[i].difficulty_level])

Analysis(n, cr, mins, w, r) ==
    [total_subjects |-> n, total_credits |-> cr, total_minutes |-> mins,
     warnings |-> w, recommendations |-> r]

\* A faulty variant of exceeds_weekly_hours: exactly 40 hours already warns.
exceeds_weekly_hours_inclusive(minutes) == minutes >= OverloadHours * 60

\* "if total_hours > 40" (total_hours is the sum of the slots' durations in hours)
exceeds_weekly_hours(minutes) == minutes > OverloadHours * 60

\* SubjectScheduler._analyze_schedule
analyze_schedule(schedule, prefs) ==
    IF schedule = <<>>
    THEN Analysis(0, 0, 0,
             <<Warning("No subjects could be scheduled with current constraints", 0, 0)>>,
             <<>>)
    ELSE Analysis(Len(schedule), schedule_credits(schedule), schedule_minutes(schedule),
             (IF Len(schedule) < prefs.subject_count
              THEN <<Warning("Only N subjects scheduled out of requested M",
                             Len(schedule), prefs.subject_count)>>
              ELSE <<>>)
             \o (IF exceeds_weekly_hours(schedule_minutes(schedule))
                 THEN <<Warning("Schedule exceeds 40 hours per week - consider reducing subjects", 0, 0)>>
                 ELSE <<>>)
             \o (IF schedule_difficulty(schedule) > HighAverageDifficulty * Len(schedule)
                 THEN <<Warning("High average difficulty level - ensure adequate study time", 0, 0)>>
                 ELSE <<>>),
             IF Cardinality(Categories(schedule)) < MinCategories
             THEN <<"Consider adding subjects from different categories for a balanced curriculum">>
             ELSE <<>>)

\* SchedulerService._analyze
analyze(schedule, prefs) ==
    IF schedule = <<>>
    THEN Analysis(0, 0, 0, <<Warning("No subjects could be scheduled", 0, 0)>>, <<>>)
    ELSE Analysis(Len(schedule), schedule_credits(schedule), schedule_minutes(schedule),
             (IF Len(schedule) < prefs.subject_count
              THEN <<Warning("Only N subjects scheduled out of M",
                             Len(schedule), prefs.subject_count)>>
              ELSE <<>>)
             \o (IF exceeds_weekly_hours(schedule_minutes(schedule))
                 THEN <<Warning("Schedule exceeds 40 hours per week", 0, 0)>>
                 ELSE <<>>),
             <<>>)

Analyze(im, schedule, prefs) ==
    IF im = "SubjectScheduler" THEN analyze_schedule(schedule, prefs)
    ELSE analyze(schedule, prefs)

(***************************************************************************)
(* create_optimal_schedule: the try block and its handler.                 *)
(***************************************************************************)
Preferences(count, strat, prio, avail, uploads) ==
    [student_id |-> 1, subject_count |-> count, strategy |-> strat,
     prioritize_dependencies |-> prio, weekly_availability |-> avail,
     uploaded_subjects |-> uploads]

NoAnalysis == Analysis(0, 0, 0, <<>>, <<>>)

\* status: "pending" (still running), "returned" or "raised" (the exception left
\* create_optimal_schedule)
Result(st, ok, has, sched, an, err, ts) ==
    [status |-> st, success |-> ok, has_schedule |-> has, schedule |-> sched,
     analysis |-> an, total_subjects |-> Len(sched),
     total_credits |-> schedule_credits(sched), error |-> err, has_timestamp |-> ts]

Pending == Result("pending", FALSE, FALSE, <<>>, NoAnalysis, "", FALSE)

ExceptionTypes == {"DatabaseError", "KeyError", "ZeroDivisionError"}

\* A faulty variant of caught_by_handler: the handler names one exception type.
caught_by_handler_key_error(e) == e = "KeyError"

\* "except Exception as e": every exception of the stages is an Exception
caught_by_handler(e) == e \in ExceptionTypes

\* the stage of create_optimal_schedule that builds available_subjects
GetAvailableSubjects ==
    /\ pc = "assemble"
    /\ LET e == get_available_subjects_raises(catalog_ok, preferences) IN
       IF e # ""
       THEN /\ exc' = e
            /\ pc' = "except"
            /\ UNCHANGED available_subjects
       ELSE /\ available_subjects' = get_available_subjects(impl, catalog, preferences)
            /\ pc' = "filter"
            /\ UNCHANGED exc
    /\ UNCHANGED <<impl, catalog, catalog_ok, student_preferences, preferences,
                   compatible_subjects, recommended_subjects, final_schedule,
                   used_time_slots, idx, analysis, result, overlapVars, httpVars>>

\* the stage that filters by availability
FilterCompatibleSubjects ==
    /\ pc = "filter"
    /\ compatible_subjects' =
           FilterCompatible(impl, available_subjects, preferences.weekly_availability)
    /\ pc' = "strategy"
    /\ UNCHANGED <<impl, catalog, catalog_ok, student_preferences, preferences,
                   available_subjects, recommended_subjects, final_schedule,
                   used_time_slots, idx, analysis, exc, result, overlapVars, httpVars>>

\* A faulty variant of ApplySchedulingStrategy: the list it is given is sorted in
\* place (list.sort instead of sorted).
ApplySchedulingStrategyInPlace ==
    /\ pc = "strategy"
    /\ LET e == ApplyStrategyRaises(impl, compatible_subjects, preferences) IN
       IF e # ""
       THEN /\ exc' = e
            /\ pc' = "except"
            /\ UNCHANGED <<compatible_subjects, recommended_subjects, final_schedule,
                           used_time_slots, idx>>
       ELSE /\ compatible_subjects' =
                   ApplyStrategy(impl, compatible_subjects, preferences, student_preferences)
            /\ recommended_subjects' = compatible_subjects'
            /\ final_schedule' = <<>>
            /\ used_time_slots' = <<>>
            /\ idx' = 1
            /\ pc' = "resolve"
            /\ UNCHANGED exc
    /\ UNCHANGED <<impl, catalog, catalog_ok, student_preferences, preferences,
                   available_subjects, analysis, result, overlapVars, httpVars>>

\* the stage that ranks; on return the greedy pass starts with empty lists
ApplySchedulingStrategy ==
    /\ pc = "strategy"
    /\ LET e == ApplyStrategyRaises(impl, compatible_subjects, preferences) IN
       IF e # ""
       THEN /\ exc' = e
            /\ pc' = "except"
            /\ UNCHANGED <<recommended_subjects, final_schedule, used_time_slots, idx>>
       ELSE /\ recommended_subjects' =
                   ApplyStrategy(impl, compatible_subjects, preferences, student_preferences)
            /\ final_schedule' = <<>>
            /\ used_time_slots' = <<>>
            /\ idx' = 1
            /\ pc' = "resolve"
            /\ UNCHANGED exc
    /\ UNCHANGED <<impl, catalog, catalog_ok, student_preferences, preferences,
                   available_subjects, compatible_subjects, analysis, result,
                   overlapVars, httpVars>>

\* A faulty variant of ConsiderCandidate: after an admission the pass starts
\* over from the first candidate that is not in the schedule.
ConsiderCandidateRestart ==
    /\ pc = "resolve"
    /\ IF idx > Len(recommended_subjects) \/ target_reached(final_schedule, preferences)
       THEN /\ pc' = "analyze"
            /\ UNCHANGED <<final_schedule, used_time_slots, idx>>
       ELSE LET subject == recommended_subjects[idx] IN
            /\ pc' = "resolve"
            /\ IF /\ admits(impl, subject, final_schedule, used_time_slots, preferences)
                  /\ \A k \in 1..Len(final_schedule) : final_schedule[k] # subject
               THEN /\ final_schedule' = Append(final_schedule, subject)
                    /\ used_time_slots' = used_time_slots \o subject.time_slots
                    /\ idx' = 1
               ELSE /\ idx' = idx + 1
                    /\ UNCHANGED <<final_schedule, used_time_slots>>
    /\ UNCHANGED <<impl, catalog, catalog_ok, student_preferences, preferences,
                   available_subjects, compatible_subjects, recommended_subjects,
                   analysis, exc, result, overlapVars, httpVars>>

\* One iteration of the loop of _create_conflict_free_schedule / _resolve_conflicts
\* (or its end: the list is exhausted, or the break on the target).
ConsiderCandidate ==
    /\ pc = "resolve"
    /\ IF idx > Len(recommended_subjects) \/ target_reached(final_schedule, preferences)
       THEN /\ pc' = "analyze"
            /\ UNCHANGED <<final_schedule, used_time_slots, idx>>
       ELSE LET subject == recommended_subjects[idx] IN
            /\ idx' = idx + 1
            /\ pc' = "resolve"
            /\ IF admits(impl, subject, final_schedule, used_time_slots, preferences)
               THEN /\ final_schedule' = Append(final_schedule, subject)
                    /\ used_time_slots' = used_time_slots \o subject.time_slots
               ELSE UNCHANGED <<final_schedule, used_time_slots>>
    /\ UNCHANGED <<impl, catalog, catalog_ok, student_preferences, preferences,
                   available_subjects, compatible_subjects, recommended_subjects,
                   analysis, exc, result, overlapVars, httpVars>>

\* the analysis stage
AnalyzeSchedule ==
    /\ pc = "analyze"
    /\ analysis' = Analyze(impl, final_schedule, preferences)
    /\ pc' = "return"
    /\ UNCHANGED <<impl, catalog, catalog_ok, student_preferences, preferences,
                   available_subjects, compatible_subjects, recommended_subjects,
                   final_schedule, used_time_slots, idx, exc, result, overlapVars, httpVars>>

\* the return statement of the try block
ReturnSchedule ==
    /\ pc = "return"
    /\ result' = Result("returned", TRUE, TRUE, final_schedule, analysis, "", TRUE)
    /\ pc' = "done"
    /\ UNCHANGED <<impl, catalog, catalog_ok, student_preferences, preferences,
                   available_subjects, compatible_subjects, recommended_subjects,
                   final_schedule, used_time_slots, idx, analysis, exc, overlapVars, httpVars>>

\* the except clause
HandleException ==
    /\ pc = "except"
    /\ result' = IF caught_by_handler(exc)
                 THEN Result("returned", FALSE, FALSE, <<>>, NoAnalysis, exc, TRUE)
                 ELSE Result("raised", FALSE, FALSE, <<>>, NoAnalysis, exc, FALSE)
    /\ pc' = "done"
    /\ UNCHANGED <<impl, catalog, catalog_ok, student_preferences, preferences,
                   available_subjects, compatible_subjects, recommended_subjects,
                   final_schedule, used_time_slots, idx, analysis, exc, overlapVars, httpVars>>

(***************************************************************************)
(* Grade-horaria HTTP routes of the backend (routes/grade_horaria.py) with *)
(* the require_auth decorator and the GradeHorariaRepository.              *)
(*                                                                         *)
(* A JWT is modelled by what jwt.decode makes of it: its kind ("valid",    *)
(* "expired", "forged": bad signature, "malformed": not a JWT, the empty   *)
(* string included) and the student_id of its payload.  An Authorization   *)
(* header is modelled by the text before its first space (scheme), whether *)
(* that space is there, and auth_header.split(' ')[1] (second).  None is 0 *)
(* for ids and "None" for column values; a key a JSON body does not hold   *)
(* is "absent" (0 for student_id).                                         *)
(***************************************************************************)
MaxGradeId == 3       \* ids the sequence of grade_horaria may issue

Clients == {"c1", "c2"}

Students == {1, 2}

Token(kind, sid) == [kind |-> kind, student_id |-> sid]

NoToken == Token("malformed", 0)

\* AuthService.verify_token: payload['student_id'], None when jwt.decode raises
verify_token(token) == IF token.kind = "valid" THEN token.student_id ELSE 0

Header(scheme, space, second) ==
    [present |-> TRUE, scheme |-> scheme, has_space |-> space, second |-> second]

\* no Authorization header (request.headers.get returns None)
NoHeader == [present |-> FALSE, scheme |-> "", has_space |-> FALSE, second |-> NoToken]

\* A faulty variant of starts_with_bearer: any scheme followed by a space passes.
starts_with_any_scheme(auth_header) == auth_header.has_space

\* auth_header.startswith('Bearer ')
starts_with_bearer(auth_header) ==
    auth_header.scheme = "Bearer" /\ auth_header.has_space

Data(sem, st, sid) == [semester |-> sem, status |-> st, student_id |-> sid]

NoData == Data("absent", "absent", 0)

IdleRequest ==
    [pc |-> "idle", method |-> "", header |-> NoHeader, grade_id |-> 0, subject_id |-> 0,
     data |-> NoData, g_current_student_id |-> 0, handler_ran |-> FALSE, status |-> 0, created_id |-> 0]

\* return jsonify(...), code: the request is over; its path and body are dropped
Respond(r, code) ==
    [r EXCEPT !.pc = "done", !.status = code, !.grade_id = 0, !.subject_id = 0,
              !.data = NoData]

\* A faulty variant of find_by_student: the id column is compared.
find_by_student_id_column(table, student_id) == {row \in table : row.id = student_id}

\* GradeHorariaRepository.find_by_student: the rows the SELECT matches (fetchone
\* returns one of them, None when there is none)
find_by_student(table, student_id) == {row \in table : row.student_id = student_id}

\* GradeHorariaRepository.find_by_id
find_by_id(table, grade_id) == {row \in table : row.id = grade_id}

\* GradeHorariaRepository.create: INSERT ... RETURNING id, with the next id of
\* the sequence
create(table, seq, student_id, semester, status) ==
    table \cup {[id |-> seq + 1, student_id |-> student_id,
                 semester |-> semester, status |-> status]}

\* GradeHorariaRepository.update: only 'semester' and 'status' are allowed fields
allowed_updates(data) == data.semester # "absent" \/ data.status # "absent"

update(table, grade_id, data) ==
    {IF row.id = grade_id
     THEN [row EXCEPT !.semester = IF data.semester # "absent" THEN data.semester ELSE @,
                      !.status = IF data.status # "absent" THEN data.status ELSE @]
     ELSE row : row \in table}

\* GradeHorariaRepository.delete
delete(table, grade_id) == {row \in table : row.id # grade_id}

\* --- requests the clients send ---
\* The routes of the blueprint, named by their method; the three routes below
\* /grade-horaria/<id> that share a method with another route carry a suffix:
\* GET /grade-horaria/<id>, POST /grade-horaria/<id>/subjects and
\* DELETE /grade-horaria/<id>/subjects/<subject_id>.
GradeMethods == {"POST", "GET", "PUT", "DELETE"}

Methods == GradeMethods \cup {"GET_BY_ID", "POST_SUBJECT", "DELETE_SUBJECT"}

\* subject ids a request may name; 0 stands for a body without 'subject_id'
SubjectIds == {1, 2}

Tokens == {Token("valid", 1), Token("valid", 2), Token("expired", 1),
           Token("forged", 2), NoToken}

Headers ==
    {NoHeader} \cup {Header("Bearer", TRUE, t) : t \in Tokens}
               \cup {Header("Bearer", FALSE, NoToken),          \* 'Bearer'
                     Header("Basic", TRUE, Token("valid", 1)),
                     Header("bearer", TRUE, Token("valid", 2))}

Bodies == {NoData, Data("2024.1", "absent", 0), Data("2024.2", "active", 2)}

\* require_auth.decorated up to the call of the wrapped handler.  The client
\* sends a request; with exclusive set it waits until no other request is in
\* flight.
require_auth(c, exclusive) ==
    /\ pc = "http"
    /\ req[c].pc \in {"idle", "done"}
    /\ exclusive => \A d \in Clients \ {c} : req[d].pc \in {"idle", "done"}
    /\ \E method \in Methods, auth_header \in Headers :
       \E grade_id \in (IF method \in {"POST", "GET"} THEN {0} ELSE 1..MaxGradeId),
          subject_id \in (IF method = "POST_SUBJECT" THEN SubjectIds \cup {0}
                          ELSE IF method = "DELETE_SUBJECT" THEN SubjectIds ELSE {0}),
          data \in (IF method \in {"POST", "PUT"} THEN Bodies ELSE {NoData}) :
          LET r == [IdleRequest EXCEPT !.method = method, !.header = auth_header,
                                       !.grade_id = grade_id, !.subject_id = subject_id,
                                       !.data = data]
              student_id == verify_token(auth_header.second)
          IN  req' = [req EXCEPT ![c] =
                        IF ~auth_header.present \/ ~starts_with_bearer(auth_header)
                        THEN Respond(r, 401)
                        ELSE IF student_id = 0
                        THEN Respond(r, 401)
                        ELSE [r EXCEPT !.pc = "handler",
                                       !.g_current_student_id = student_id]]
    /\ UNCHANGED <<grade_horaria, grade_id_seq, grade_horaria_subjects, schedVars,
                   overlapVars>>

\* create_grade up to the test of existing
create_grade(c) ==
    /\ req[c].pc = "handler"
    /\ req[c].method = "POST"
    /\ LET existing == find_by_student(grade_horaria, req[c].g_current_student_id)
           r == [req[c] EXCEPT !.handler_ran = TRUE]
       IN  req' = [req EXCEPT ![c] = IF existing # {} THEN Respond(r, 409)
                                     ELSE [r EXCEPT !.pc = "create"]]
    /\ UNCHANGED <<grade_horaria, grade_id_seq, grade_horaria_subjects, schedVars,
                   overlapVars>>

\* create_grade from GradeHorariaRepository.create on
create_grade_insert(c) ==
    /\ req[c].pc = "create"
    /\ grade_id_seq < MaxGradeId
    /\ grade_horaria' =
           create(grade_horaria, grade_id_seq, req[c].g_current_student_id,
                  IF req[c].data.semester = "absent" THEN "None" ELSE req[c].data.semester,
                  IF req[c].data.status = "absent" THEN "draft" ELSE req[c].data.status)
    /\ grade_id_seq' = grade_id_seq + 1
    /\ req' = [req EXCEPT ![c] = Respond([@ EXCEPT !.created_id = grade_id_seq + 1], 201)]
    /\ UNCHANGED <<grade_horaria_subjects, schedVars, overlapVars>>

\* get_grade
get_grade(c) ==
    /\ req[c].pc = "handler"
    /\ req[c].method = "GET"
    /\ LET grade == find_by_student(grade_horaria, req[c].g_current_student_id)
           r == [req[c] EXCEPT !.handler_ran = TRUE]
       IN  req' = [req EXCEPT ![c] = Respond(r, IF grade = {} THEN 404 ELSE 200)]
    /\ UNCHANGED <<grade_horaria, grade_id_seq, grade_horaria_subjects, schedVars,
                   overlapVars>>

\* update_grade
update_grade(c) ==
    /\ req[c].pc = "handler"
    /\ req[c].method = "PUT"
    /\ LET grade == find_by_id(grade_horaria, req[c].grade_id)
           r == [req[c] EXCEPT !.handler_ran = TRUE]
       IN  IF grade = {}
           THEN /\ req' = [req EXCEPT ![c] = Respond(r, 404)]
                /\ UNCHANGED grade_horaria
           ELSE IF \A row \in grade : row.student_id # req[c].g_current_student_id
           THEN /\ req' = [req EXCEPT ![c] = Respond(r, 403)]
                /\ UNCHANGED grade_horaria
           ELSE IF ~allowed_updates(req[c].data)
           THEN /\ req' = [req EXCEPT ![c] = Respond(r, 400)]
                /\ UNCHANGED grade_horaria
           ELSE /\ grade_horaria' = update(grade_horaria, req[c].grade_id, req[c].data)
                /\ req' = [req EXCEPT ![c] = Respond(r, 200)]
    /\ UNCHANGED <<grade_id_seq, grade_horaria_subjects, schedVars, overlapVars>>

\* the rows of grade_horaria_subjects that belong to a grade
subjects_of(table, grade_id) == {row \in table : row.grade_id = grade_id}

\* delete_grade.  What the DELETE does to the grade's rows of
\* grade_horaria_subjects is decided by the table definitions: the rows stay,
\* they go with the grade, or the DELETE is refused and raises.
delete_grade(c) ==
    /\ req[c].pc = "handler"
    /\ req[c].method = "DELETE"
    /\ LET grade == find_by_id(grade_horaria, req[c].grade_id)
           r == [req[c] EXCEPT !.handler_ran = TRUE]
           own == subjects_of(grade_horaria_subjects, req[c].grade_id)
       IN  IF grade = {}
           THEN /\ req' = [req EXCEPT ![c] = Respond(r, 404)]
                /\ UNCHANGED <<grade_horaria, grade_horaria_subjects>>
           ELSE IF \A row \in grade : row.student_id # req[c].g_current_student_id
           THEN /\ req' = [req EXCEPT ![c] = Respond(r, 403)]
                /\ UNCHANGED <<grade_horaria, grade_horaria_subjects>>
           ELSE \/ /\ grade_horaria' = delete(grade_horaria, req[c].grade_id)
                   /\ grade_horaria_subjects' \in
                          {grade_horaria_subjects, grade_horaria_subjects \ own}
                   /\ req' = [req EXCEPT ![c] = Respond(r, 200)]
                \/ /\ own # {}
                   /\ req' = [req EXCEPT ![c] = Respond(r, 500)]
                   /\ UNCHANGED <<grade_horaria, grade_horaria_subjects>>
    /\ UNCHANGED <<grade_id_seq, schedVars, overlapVars>>

MaxSubjectRows == 1   \* rows the table grade_horaria_subjects may hold

\* A faulty variant of not_owner: the grade's id is compared with the student id.
not_owner_by_grade_id(grade, student_id) == \A row \in grade : row.id # student_id

\* grade['student_id'] != g.current_student_id
not_owner(grade, student_id) == \A row \in grade : row.student_id # student_id

\* get_grade_by_id
get_grade_by_id(c) ==
    /\ req[c].pc = "handler"
    /\ req[c].method = "GET_BY_ID"
    /\ LET grade == find_by_id(grade_horaria, req[c].grade_id)
           r == [req[c] EXCEPT !.handler_ran = TRUE]
       IN  req' = [req EXCEPT ![c] =
                     IF grade = {} THEN Respond(r, 404)
                     ELSE IF not_owner(grade, req[c].g_current_student_id)
                     THEN Respond(r, 403)
                     ELSE Respond(r, 200)]
    /\ UNCHANGED <<grade_horaria, grade_id_seq, grade_horaria_subjects, schedVars,
                   overlapVars>>

\* add_subject_to_grade.  GradeHorariaRepository.add_subject returns the id of
\* the inserted row, or None when the INSERT raises; which INSERTs the table
\* definitions refuse is not fixed by the code, so either may happen.
add_subject_to_grade(c) ==
    /\ req[c].pc = "handler"
    /\ req[c].method = "POST_SUBJECT"
    /\ LET grade == find_by_id(grade_horaria, req[c].grade_id)
           r == [req[c] EXCEPT !.handler_ran = TRUE]
       IN  IF grade = {}
           THEN /\ req' = [req EXCEPT ![c] = Respond(r, 404)]
                /\ UNCHANGED grade_horaria_subjects
           ELSE IF not_owner(grade, req[c].g_current_student_id)
           THEN /\ req' = [req EXCEPT ![c] = Respond(r, 403)]
                /\ UNCHANGED grade_horaria_subjects
           ELSE IF req[c].subject_id = 0
           THEN /\ req' = [req EXCEPT ![c] = Respond(r, 400)]
                /\ UNCHANGED grade_horaria_subjects
           ELSE \/ /\ Cardinality(grade_horaria_subjects) < MaxSubjectRows
                   /\ grade_horaria_subjects' = grade_horaria_subjects \cup
                          {[grade_id |-> req[c].grade_id, subject_id |-> req[c].subject_id]}
                   /\ req' = [req EXCEPT ![c] = Respond(r, 201)]
                \/ /\ req' = [req EXCEPT ![c] = Respond(r, 409)]
                   /\ UNCHANGED grade_horaria_subjects
    /\ UNCHANGED <<grade_horaria, grade_id_seq, schedVars, overlapVars>>

\* GradeHorariaRepository.remove_subject
remove_subject(table, grade_id, subject_id) ==
    {row \in table : ~(row.grade_id = grade_id /\ row.subject_id = subject_id)}

\* remove_subject_from_grade
remove_subject_from_grade(c) ==
    /\ req[c].pc = "handler"
    /\ req[c].method = "DELETE_SUBJECT"
    /\ LET grade == find_by_id(grade_horaria, req[c].grade_id)
           r == [req[c] EXCEPT !.handler_ran = TRUE]
           after == remove_subject(grade_horaria_subjects, req[c].grade_id,
                                   req[c].subject_id)
       IN  IF grade = {}
           THEN /\ req' = [req EXCEPT ![c] = Respond(r, 404)]
                /\ UNCHANGED grade_horaria_subjects
           ELSE IF not_owner(grade, req[c].g_current_student_id)
           THEN /\ req' = [req EXCEPT ![c] = Respond(r, 403)]
                /\ UNCHANGED grade_horaria_subjects
           ELSE /\ grade_horaria_subjects' = after
                /\ req' = [req EXCEPT ![c] =
                              Respond(r, IF after # grade_horaria_subjects THEN 200
                                         ELSE 404)]
    /\ UNCHANGED <<grade_horaria, grade_id_seq, schedVars, overlapVars>>

InitHttpIdle ==
    /\ grade_horaria = {}
    /\ grade_id_seq = 0
    /\ grade_horaria_subjects = {}
    /\ req = [c \in Clients |-> IdleRequest]

(***************************************************************************)
(* Inputs.                                                                 *)
(***************************************************************************)
Names == <<"A", "B", "C", "D", "E">>

Mon(s, e) == TimeSlot("Monday", s, e)
Tue(s, e) == TimeSlot("Tuesday", s, e)

IdleSlot == Mon(540, 600)

\* --- schedule strings ---
Sched_Mon_9_10     == <<Segment(2, "Mon", <<"09:00", "10:00">>)>>       \* 'Mon 09:00-10:00'
Sched_Monday_9_11  == <<Segment(2, "Monday", <<"09:00", "11:00">>)>>    \* 'Monday 09:00-11:00'
Sched_Empty        == <<>>                                              \* ''

\* --- catalog rows: what a row holds besides its id and name ---
RowOptions ==
    { [credits |-> 3, difficulty_level |-> 3, prerequisites |-> <<>>,
       schedule |-> Sched_Mon_9_10],
      [credits |-> 4, difficulty_level |-> 5, prerequisites |-> <<>>,
       schedule |-> Sched_Monday_9_11],
      [credits |-> 2, difficulty_level |-> 1, prerequisites |-> <<"A", ",", "Z">>,
       schedule |-> Sched_Empty] }

CatalogRow(i, o) ==
    [id |-> i, name |-> Names[i], category |-> "Core", credits |-> o.credits,
     difficulty_level |-> o.difficulty_level, prerequisites |-> o.prerequisites,
     schedule |-> o.schedule]

Catalogs ==
    {[i \in 1..Len(os) |-> CatalogRow(i, os[i])] : os \in SeqsUpTo(RowOptions, MaxCatalog)}

\* --- uploaded records ---
Uploads ==
    { [has_name |-> TRUE, name |-> "U", schedule |-> Sched_Mon_9_10,
       has_category |-> FALSE, category |-> "", has_credits |-> FALSE, credits |-> 0,
       has_difficulty |-> FALSE, difficulty |-> 0],
      [has_name |-> FALSE, name |-> "", schedule |-> Sched_Empty,
       has_category |-> TRUE, category |-> "Lab", has_credits |-> TRUE, credits |-> 2,
       has_difficulty |-> TRUE, difficulty |-> 2] }

\* --- availability ---
Availability(d, a, ws) == [day |-> d, available |-> a, time_slots |-> ws]

Avail_AllFalse == <<Availability("Monday", FALSE, <<>>), Availability("Tuesday", FALSE, <<>>)>>
Avail_Mon_9_12 == <<Availability("Monday", TRUE, <<Mon(540, 720)>>),
                    Availability("Tuesday", FALSE, <<>>)>>
Avail_Mon_9_10 == <<Availability("Monday", TRUE, <<Mon(540, 600)>>),
                    Availability("Tuesday", TRUE, <<Tue(540, 720)>>)>>

WeeklyAvailabilities == {Avail_AllFalse, Avail_Mon_9_12, Avail_Mon_9_10}

StrategyValues == Strategies \cup {"unknown"}

PreferenceRows == <<[subject_name |-> "B", interest_level |-> 5],
                    [subject_name |-> "C", interest_level |-> 5]>>

(***************************************************************************)
(* Spec: one call of create_optimal_schedule, from the request to the      *)
(* returned result.                                                        *)
(***************************************************************************)
InitOverlapIdle ==
    /\ slot_a = IdleSlot
    /\ slot_b = IdleSlot
    /\ overlap_ab = FALSE
    /\ overlap_ba = FALSE

InitStagesEmpty ==
    /\ available_subjects = <<>>
    /\ compatible_subjects = <<>>
    /\ recommended_subjects = <<>>
    /\ final_schedule = <<>>
    /\ used_time_slots = <<>>
    /\ idx = 1
    /\ analysis = NoAnalysis
    /\ exc = ""
    /\ result = Pending

Init ==
    /\ impl \in Implementations
    /\ catalog \in Catalogs
    /\ catalog_ok \in BOOLEAN
    /\ student_preferences = PreferenceRows
    /\ \E count \in 0..MaxCount, strat \in StrategyValues, prio \in BOOLEAN,
          avail \in WeeklyAvailabilities, ups \in SeqsUpTo(Uploads, MaxUploaded) :
          preferences = Preferences(count, strat, prio, avail, ups)
    /\ pc = "assemble"
    /\ InitStagesEmpty
    /\ InitOverlapIdle
    /\ InitHttpIdle

Next ==
    \/ GetAvailableSubjects
    \/ FilterCompatibleSubjects
    \/ ApplySchedulingStrategy
    \/ ConsiderCandidate
    \/ AnalyzeSchedule
    \/ ReturnSchedule
    \/ HandleException

Spec == Init /\ [][Next]_vars

(***************************************************************************)
(* SpecOverlap: TimeSlot.overlaps_with on every pair of slots over two     *)
(* days and four times of day (start >= end included: nothing in the code  *)
(* rejects such a slot).                                                   *)
(***************************************************************************)
OverlapDays == {"Monday", "Tuesday"}
OverlapTimes == {540, 600, 630, 660}
OverlapSlots == {TimeSlot(d, st, en) : d \in OverlapDays, st \in OverlapTimes, en \in OverlapTimes}

InitSchedIdle ==
    /\ catalog = <<>>
    /\ catalog_ok = TRUE
    /\ student_preferences = <<>>
    /\ preferences = Preferences(0, "interest_based", FALSE, <<>>, <<>>)
    /\ InitStagesEmpty

InitOverlap ==
    /\ impl \in Implementations
    /\ slot_a \in OverlapSlots
    /\ slot_b \in OverlapSlots
    /\ overlap_ab = FALSE
    /\ overlap_ba = FALSE
    /\ pc = "overlaps"
    /\ InitSchedIdle
    /\ InitHttpIdle

\* slot_a.overlaps_with(slot_b) and slot_b.overlaps_with(slot_a)
OverlapsWith ==
    /\ pc = "overlaps"
    /\ overlap_ab' = Overlaps(impl, slot_a, slot_b)
    /\ overlap_ba' = Overlaps(impl, slot_b, slot_a)
    /\ pc' = "done"
    /\ UNCHANGED <<impl, catalog, catalog_ok, student_preferences, preferences,
                   available_subjects, compatible_subjects, recommended_subjects,
                   final_schedule, used_time_slots, idx, analysis, exc, result,
                   slot_a, slot_b, httpVars>>

NextOverlap == OverlapsWith

SpecOverlap == InitOverlap /\ [][NextOverlap]_vars

(***************************************************************************)
(* SpecResolve: the greedy pass alone, on every ranked list of up to       *)
(* MaxSubjects candidates.  Candidate i is named Names[i].                 *)
(***************************************************************************)
ResolveOptions ==
    { [prerequisites |-> <<>>,                 time_slots |-> <<Mon(540, 660)>>],
      [prerequisites |-> <<>>,                 time_slots |-> <<Mon(600, 720), Tue(540, 600)>>],
      [prerequisites |-> <<>>,                 time_slots |-> <<Mon(660, 720)>>],
      [prerequisites |-> <<<<"A">>>>,          time_slots |-> <<Mon(660, 720)>>],
      [prerequisites |-> <<<<"A">>, <<"B">>>>, time_slots |-> <<>>],
      [prerequisites |-> <<<<"Z">>>>,          time_slots |-> <<Mon(540, 660)>>],
      [prerequisites |-> <<<<"B">>>>,          time_slots |-> <<Tue(540, 600), Mon(600, 720)>>],
      [prerequisites |-> <<>>,                 time_slots |-> <<Tue(540, 630), Tue(600, 660)>>] }

ResolveSubject(i, o) ==
    Subject(i, Names[i], "Core", DefaultCredits, DefaultDifficulty,
            o.prerequisites, o.time_slots)

RankedLists ==
    {[i \in 1..Len(os) |-> ResolveSubject(i, os[i])] : os \in SeqsUpTo(ResolveOptions, MaxSubjects)}

InitResolve ==
    /\ impl \in Implementations
    /\ catalog = <<>>
    /\ catalog_ok = TRUE
    /\ student_preferences = <<>>
    /\ \E count \in 0..MaxCount, prio \in BOOLEAN :
          preferences = Preferences(count, "interest_based", prio, <<>>, <<>>)
    /\ recommended_subjects \in RankedLists
    /\ available_subjects = recommended_subjects
    /\ compatible_subjects = recommended_subjects
    /\ final_schedule = <<>>
    /\ used_time_slots = <<>>
    /\ idx = 1
    /\ analysis = NoAnalysis
    /\ exc = ""
    /\ result = Pending
    /\ pc = "resolve"
    /\ InitOverlapIdle
    /\ InitHttpIdle

NextResolve == ConsiderCandidate

SpecResolve == InitResolve /\ [][NextResolve]_vars

\* The for loop runs to its end: every iteration that can be taken is taken.
SpecResolveLive == SpecResolve /\ WF_vars(NextResolve)

(***************************************************************************)
(* SpecBoth: one call of create_optimal_schedule of either implementation  *)
(* on catalogs whose schedules touch, overlap and span two days, so that   *)
(* the two implementations can be compared on the same request.            *)
(***************************************************************************)
Sched_Monday_9_10  == <<Segment(2, "Monday", <<"09:00", "10:00">>)>>    \* 'Monday 09:00-10:00'
Sched_Monday_10_11 == <<Segment(2, "Monday", <<"10:00", "11:00">>)>>    \* 'Monday 10:00-11:00'
\* 'Tuesday 09:00-10:00, Monday 09:00-10:30'
Sched_Tue_Mon      == <<Segment(2, "Tuesday", <<"09:00", "10:00">>),
                        Segment(2, "Monday", <<"09:00", "10:30">>)>>

BothRowOptions ==
    { [credits |-> 3, difficulty_level |-> 3, prerequisites |-> <<>>,
       schedule |-> Sched_Monday_9_10],
      [credits |-> 4, difficulty_level |-> 2, prerequisites |-> <<"A">>,
       schedule |-> Sched_Monday_10_11],
      [credits |-> 4, difficulty_level |-> 1, prerequisites |-> <<"B", ";", "A">>,
       schedule |-> Sched_Tue_Mon],
      [credits |-> 2, difficulty_level |-> 3, prerequisites |-> <<>>,
       schedule |-> Sched_Mon_9_10],
      [credits |-> 3, difficulty_level |-> 1, prerequisites |-> <<>>,
       schedule |-> Sched_Empty] }

BothCatalogs ==
    {[i \in 1..Len(os) |-> CatalogRow(i, os[i])] : os \in SeqsUpTo(BothRowOptions, MaxCatalog)}

BothUploads ==
    { [has_name |-> TRUE, name |-> "U", schedule |-> Sched_Monday_10_11,
       has_category |-> FALSE, category |-> "", has_credits |-> FALSE, credits |-> 0,
       has_difficulty |-> FALSE, difficulty |-> 0] }

InitBoth ==
    /\ impl \in Implementations
    /\ catalog \in BothCatalogs
    /\ catalog_ok = TRUE
    /\ student_preferences = PreferenceRows
    /\ \E count \in 0..MaxCount, strat \in Strategies, prio \in BOOLEAN,
          avail \in {Avail_Mon_9_12, Avail_Mon_9_10},
          ups \in SeqsUpTo(BothUploads, MaxUploaded) :
          preferences = Preferences(count, strat, prio, avail, ups)
    /\ pc = "assemble"
    /\ InitStagesEmpty
    /\ InitOverlapIdle
    /\ InitHttpIdle

SpecBoth == InitBoth /\ [][Next]_vars

(***************************************************************************)
(* SpecFilter: the availability filter alone, on lists of subjects and     *)
(* availability lists of up to MaxEntries entries (a day may have several  *)
(* entries: nothing in the code rejects that).                             *)
(***************************************************************************)
MaxEntries == 2

FilterSlotLists ==
    { <<>>,
      <<Mon(540, 600)>>,
      <<Mon(540, 660)>>,
      <<Tue(540, 600)>>,
      <<Mon(600, 660), Tue(540, 600)>> }

AvailabilityEntries ==
    { Availability("Monday", TRUE, <<Mon(540, 720)>>),
      Availability("Monday", TRUE, <<Mon(540, 600), Mon(600, 660)>>),
      Availability("Monday", FALSE, <<Mon(540, 720)>>),
      Availability("Monday", TRUE, <<Mon(600, 660)>>),
      Availability("Tuesday", TRUE, <<Tue(540, 600)>>) }

FilterInputs ==
    {[i \in 1..Len(ts) |->
         Subject(i, Names[i], "Core", DefaultCredits, DefaultDifficulty, <<>>, ts[i])] :
     ts \in SeqsUpTo(FilterSlotLists, MaxSubjects)}

InitFilter ==
    /\ impl \in Implementations
    /\ catalog = <<>>
    /\ catalog_ok = TRUE
    /\ student_preferences = <<>>
    /\ \E avail \in SeqsUpTo(AvailabilityEntries, MaxEntries) :
          preferences = Preferences(MaxCount, "interest_based", FALSE, avail, <<>>)
    /\ available_subjects \in FilterInputs
    /\ compatible_subjects = <<>>
    /\ recommended_subjects = <<>>
    /\ final_schedule = <<>>
    /\ used_time_slots = <<>>
    /\ idx = 1
    /\ analysis = NoAnalysis
    /\ exc = ""
    /\ result = Pending
    /\ pc = "filter"
    /\ InitOverlapIdle
    /\ InitHttpIdle

NextFilter == FilterCompatibleSubjects

SpecFilter == InitFilter /\ [][NextFilter]_vars

(***************************************************************************)
(* SpecRank: the strategy ranker alone, on lists of compatible subjects.   *)
(***************************************************************************)
\* minutes: the length of the one weekly slot of the subject (0: no slot).  The
\* slot of candidate i lies on a day of its own, so no two candidates conflict.
RankOptions ==
    { [credits |-> 2, difficulty_level |-> 1, prerequisites |-> <<>>, minutes |-> 0],
      [credits |-> 4, difficulty_level |-> 5, prerequisites |-> <<>>, minutes |-> 60],
      [credits |-> 3, difficulty_level |-> 3, prerequisites |-> <<>>, minutes |-> 0],
      [credits |-> 4, difficulty_level |-> 1, prerequisites |-> <<<<"A">>>>, minutes |-> 60],
      [credits |-> 3, difficulty_level |-> 1, prerequisites |-> <<<<"A">>, <<"B">>>>,
       minutes |-> 120],
      [credits |-> 2, difficulty_level |-> 5, prerequisites |-> <<<<"B">>>>, minutes |-> 0],
      [credits |-> 3, difficulty_level |-> 3, prerequisites |-> <<<<"A">>>>, minutes |-> 120] }

RankDays == <<"Monday", "Tuesday", "Wednesday", "Thursday", "Friday">>

RankInputs ==
    {[i \in 1..Len(os) |->
         Subject(i, Names[i], "Core", os[i].credits, os[i].difficulty_level,
                 os[i].prerequisites,
                 IF os[i].minutes = 0 THEN <<>>
                 ELSE <<TimeSlot(RankDays[i], 540, 540 + os[i].minutes)>>)] :
     os \in SeqsUpTo(RankOptions, MaxSubjects)}

InitRank ==
    /\ impl \in Implementations
    /\ catalog = <<>>
    /\ catalog_ok = TRUE
    /\ student_preferences = PreferenceRows
    /\ \E count \in 0..MaxCount, strat \in StrategyValues :
          preferences = Preferences(count, strat, FALSE, <<>>, <<>>)
    /\ compatible_subjects \in RankInputs
    /\ available_subjects = compatible_subjects
    /\ recommended_subjects = <<>>
    /\ final_schedule = <<>>
    /\ used_time_slots = <<>>
    /\ idx = 1
    /\ analysis = NoAnalysis
    /\ exc = ""
    /\ result = Pending
    /\ pc = "strategy"
    /\ InitOverlapIdle
    /\ InitHttpIdle

\* the ranker, followed by the greedy pass over its output
NextRank == ApplySchedulingStrategy \/ ConsiderCandidate

SpecRank == InitRank /\ [][NextRank]_vars

(***************************************************************************)
(* SpecAnalyze: the analyzer alone, on final schedules of up to            *)
(* MaxSubjects subjects whose weekly hours add up to 39, 40, 40.5, 41 and  *)
(* other totals.  The analyzer never compares slots, so one option may be  *)
(* drawn several times.                                                    *)
(***************************************************************************)
AnalyzeOptions ==
    { [credits |-> 4, difficulty_level |-> 5, category |-> "Core",
       time_slots |-> <<Mon(0, 1200)>>],                                \* 20 h
      [credits |-> 3, difficulty_level |-> 3, category |-> "Elective",
       time_slots |-> <<Mon(0, 600), Tue(0, 660)>>],                    \* 21 h
      [credits |-> 2, difficulty_level |-> 1, category |-> "Core",
       time_slots |-> <<Tue(0, 1140)>>],                                \* 19 h
      [credits |-> 1, difficulty_level |-> 5, category |-> "Core",
       time_slots |-> <<Tue(600, 630)>>],                               \* 0.5 h
      [credits |-> 3, difficulty_level |-> 5, category |-> "Core",
       time_slots |-> <<>>] }

AnalyzeInputs ==
    {[i \in 1..Len(os) |->
         Subject(i, Names[i], os[i].category, os[i].credits, os[i].difficulty_level,
                 <<>>, os[i].time_slots)] :
     os \in SeqsUpTo(AnalyzeOptions, MaxSubjects)}

InitAnalyze ==
    /\ impl \in Implementations
    /\ catalog = <<>>
    /\ catalog_ok = TRUE
    /\ student_preferences = <<>>
    /\ \E count \in 0..MaxCount :
          preferences = Preferences(count, "interest_based", FALSE, <<>>, <<>>)
    /\ final_schedule \in AnalyzeInputs
    /\ available_subjects = final_schedule
    /\ compatible_subjects = final_schedule
    /\ recommended_subjects = final_schedule
    /\ used_time_slots = Concat([i \in 1..Len(final_schedule) |-> final_schedule[i].time_slots])
    /\ idx = Len(final_schedule) + 1
    /\ analysis = NoAnalysis
    /\ exc = ""
    /\ result = Pending
    /\ pc = "analyze"
    /\ InitOverlapIdle
    /\ InitHttpIdle

NextAnalyze == AnalyzeSchedule \/ ReturnSchedule

SpecAnalyze == InitAnalyze /\ [][NextAnalyze]_vars

(***************************************************************************)
(* SpecAssemble: _get_available_subjects alone, on catalogs whose rows     *)
(* carry distinct ids drawn from small and from four-digit values,         *)
(* followed by uploaded records.                                           *)
(***************************************************************************)
CatalogIds == {1, 2, 999, 1000, 1001, 1002}

AssembleCatalogs ==
    {[i \in 1..Len(ids) |->
         [id |-> ids[i], name |-> Names[i], category |-> "Core", credits |-> 3,
          difficulty_level |-> 3, prerequisites |-> <<>>, schedule |-> Sched_Empty]] :
     ids \in {q \in SeqsUpTo(CatalogIds, MaxCatalog) :
                 \A i, j \in 1..Len(q) : i # j => q[i] # q[j]}}

InitAssemble ==
    /\ impl \in Implementations
    /\ catalog \in AssembleCatalogs
    /\ catalog_ok \in BOOLEAN
    /\ student_preferences = <<>>
    /\ \E ups \in SeqsUpTo(Uploads, MaxUploaded) :
          preferences = Preferences(1, "interest_based", FALSE, <<>>, ups)
    /\ pc = "assemble"
    /\ InitStagesEmpty
    /\ InitOverlapIdle
    /\ InitHttpIdle

NextAssemble == GetAvailableSubjects

SpecAssemble == InitAssemble /\ [][NextAssemble]_vars

(***************************************************************************)
(* SpecParse: the schedule-string parser, called by the assembler on the   *)
(* one row of a catalog, for every schedule string of up to MaxSegments    *)
(* segments: well-formed ones, ones that raise, ones that are passed over. *)
(***************************************************************************)
MaxSegments == 3

ParseSegments ==
    { Segment(2, "Monday",  <<"09:00", "10:00">>),            \* 'Monday 09:00-10:00'
      Segment(2, "Tuesday", <<"10:30", "12:00">>),            \* 'Tuesday 10:30-12:00'
      Segment(2, "Monday",  <<"9h", "10:00">>),               \* 'Monday 9h-10:00'
      Segment(2, "Tuesday", <<"09:00", "10:00", "11:00">>),   \* 'Tuesday 09:00-10:00-11:00'
      Segment(2, "Monday",  <<"09:00">>),                     \* 'Monday 09:00'
      Segment(2, "Monday",  <<"11:00", "09:00">>),            \* 'Monday 11:00-09:00'
      Segment(2, "Tuesday", <<"09:00", "09:00">>),            \* 'Tuesday 09:00-09:00'
      BlankSegment }                                          \* ''

InitParse ==
    /\ impl \in Implementations
    /\ \E str \in SeqsUpTo(ParseSegments, MaxSegments) :
          catalog = <<[id |-> 1, name |-> "A", category |-> "Core", credits |-> 3,
                       difficulty_level |-> 3, prerequisites |-> <<>>, schedule |-> str]>>
    /\ catalog_ok = TRUE
    /\ student_preferences = <<>>
    /\ preferences = Preferences(1, "interest_based", FALSE, <<>>, <<>>)
    /\ pc = "assemble"
    /\ InitStagesEmpty
    /\ InitOverlapIdle
    /\ InitHttpIdle

SpecParse == InitParse /\ [][NextAssemble]_vars

(***************************************************************************)
(* SpecGrade: the grade-horaria routes under requests sent one after the   *)
(* other by one client, each with any header of Headers.                   *)
(***************************************************************************)
InitGrade ==
    /\ impl = "SchedulerService"
    /\ pc = "http"
    /\ InitSchedIdle
    /\ InitOverlapIdle
    /\ InitHttpIdle

NextGrade ==
    \E c \in {"c1"} :
        \/ require_auth(c, TRUE) /\ req'[c].method \in GradeMethods
        \/ create_grade(c)
        \/ create_grade_insert(c)
        \/ get_grade(c)
        \/ update_grade(c)
        \/ delete_grade(c)

SpecGrade == InitGrade /\ [][NextGrade]_vars

(***************************************************************************)
(* SpecGradeRace: POST /grade-horaria sent by two clients at the same time *)
(* with tokens that verify; the steps of the two handlers interleave.      *)
(***************************************************************************)
NextGradeRace ==
    \E c \in Clients :
        \/ /\ require_auth(c, FALSE)
           /\ req'[c].method = "POST"
           /\ req'[c].pc = "handler"
        \/ create_grade(c)
        \/ create_grade_insert(c)

SpecGradeRace == InitGrade /\ [][NextGradeRace]_vars

(***************************************************************************)
(* SpecOwner: all routes of the blueprint under requests of two students   *)
(* sent one after the other, each with a token that verifies.              *)
(***************************************************************************)
OwnerBodies == {NoData, Data("2024.2", "active", 2)}

NextOwner ==
    \E c \in {"c1"} :
        \/ /\ require_auth(c, TRUE)
           /\ req'[c].pc = "handler"
           /\ req'[c].data \in OwnerBodies
        \/ create_grade(c)
        \/ create_grade_insert(c)
        \/ get_grade(c)
        \/ update_grade(c)
        \/ delete_grade(c)
        \/ get_grade_by_id(c)
        \/ add_subject_to_grade(c)
        \/ remove_subject_from_grade(c)

SpecOwner == InitGrade /\ [][NextOwner]_vars

(***************************************************************************)
(* Properties.                                                             *)
(***************************************************************************)
\* Same day and the two intervals share a point of time.
ProperlyIntersect(a, b) ==
    a.day = b.day /\ a.start_time < b.end_time /\ b.start_time < a.end_time

SubjectsClash(s1, s2) ==
    \E i \in 1..Len(s1.time_slots) : \E j \in 1..Len(s2.time_slots) :
        ProperlyIntersect(s1.time_slots[i], s2.time_slots[j])

\* C1: at every step of the greedy pass of either implementation, no time slot of
\* an admitted subject overlaps a time slot of another admitted subject.
C1_NoConflict ==
    \A i, j \in 1..Len(final_schedule) :
        i # j => ~SubjectsClash(final_schedule[i], final_schedule[j])

\* C1 witness: two subjects with time slots were admitted and a third candidate,
\* examined between them, was rejected for its time conflict.
C1_Witness ==
    /\ pc = "analyze"
    /\ ~preferences.prioritize_dependencies
    /\ Len(final_schedule) = 2
    /\ idx = 4
    /\ final_schedule[1].time_slots # <<>>
    /\ final_schedule[2].time_slots # <<>>
    /\ final_schedule[2].id = 3
    /\ SubjectsClash(final_schedule[1], recommended_subjects[2])

\* C2: the number of admitted subjects never exceeds subject_count, and once it
\* has reached subject_count no step of the pass admits anything.
C2_Capacity ==
    /\ [](Len(final_schedule) <= preferences.subject_count)
    /\ [][Len(final_schedule) >= preferences.subject_count
          => final_schedule' = final_schedule]_vars

\* C2 witness: the pass stopped on the target with candidates left unexamined.
C2_Witness ==
    /\ pc = "analyze"
    /\ preferences.subject_count >= 1
    /\ Len(final_schedule) = preferences.subject_count
    /\ idx <= Len(recommended_subjects)

\* C3: in SubjectScheduler with prioritize_dependencies set, every prerequisite of
\* every admitted subject is the name of a subject admitted at an earlier position.
C3_PrerequisitesFirst ==
    (impl = "SubjectScheduler" /\ preferences.prioritize_dependencies) =>
        \A k \in 1..Len(final_schedule) :
            \A q \in 1..Len(final_schedule[k].prerequisites) :
                \E j \in 1..(k - 1) :
                    <<final_schedule[j].name>> = final_schedule[k].prerequisites[q]

\* C3 witness: a subject with a prerequisite was admitted after it, and a
\* candidate naming a subject that is in no list was skipped.
C3_Witness ==
    /\ impl = "SubjectScheduler"
    /\ preferences.prioritize_dependencies
    /\ pc = "analyze"
    /\ \E k \in 1..Len(final_schedule) : final_schedule[k].prerequisites # <<>>
    /\ \E i \in 1..Len(recommended_subjects) :
          /\ <<"Z">> \in Range(recommended_subjects[i].prerequisites)
          /\ i < idx

\* --- C4 ---
Contains(window, slot) ==
    window.start_time <= slot.start_time /\ window.end_time >= slot.end_time

PassedFilter(i) ==
    \E j \in 1..Len(compatible_subjects) : compatible_subjects[j].id = available_subjects[i].id

\* some entry of the slot's day is available and one of its windows contains the slot
FitsSomeAvailableEntry(avail, slot) ==
    \E k \in 1..Len(avail) :
        /\ avail[k].day = slot.day
        /\ avail[k].available
        /\ \E w \in 1..Len(avail[k].time_slots) : Contains(avail[k].time_slots[w], slot)

\* the last available entry of the slot's day has a window that contains the slot
FitsLastAvailableEntry(avail, slot) ==
    \E k \in 1..Len(avail) :
        /\ avail[k].day = slot.day
        /\ avail[k].available
        /\ \A k2 \in (k + 1)..Len(avail) : ~(avail[k2].day = slot.day /\ avail[k2].available)
        /\ \E w \in 1..Len(avail[k].time_slots) : Contains(avail[k].time_slots[w], slot)

\* C4, as stated: a subject passes the availability filter iff each of its slots
\* lies on a day that has an available entry and is contained in one window of
\* that day.
C4_FilterIffSomeEntry ==
    pc = "strategy" =>
        \A i \in 1..Len(available_subjects) :
            PassedFilter(i) <=>
                \A n \in 1..Len(available_subjects[i].time_slots) :
                    FitsSomeAvailableEntry(preferences.weekly_availability,
                                           available_subjects[i].time_slots[n])

\* C4, amended: a subject passes the availability filter iff each of its slots is
\* contained in one window of the last available entry given for the slot's day.
C4_FilterIffLastEntry ==
    pc = "strategy" =>
        \A i \in 1..Len(available_subjects) :
            PassedFilter(i) <=>
                \A n \in 1..Len(available_subjects[i].time_slots) :
                    FitsLastAvailableEntry(preferences.weekly_availability,
                                           available_subjects[i].time_slots[n])

\* C4 witness: the filter ran with Monday open 09:00-10:00 and 10:00-11:00; it kept
\* a subject meeting Monday 09:00-10:00 and dropped one meeting Monday 09:00-11:00.
C4_Witness ==
    /\ pc = "strategy"
    /\ preferences.weekly_availability =
           <<Availability("Monday", TRUE, <<Mon(540, 600), Mon(600, 660)>>)>>
    /\ \E i \in 1..Len(available_subjects) :
          available_subjects[i].time_slots = <<Mon(540, 600)>> /\ PassedFilter(i)
    /\ \E i \in 1..Len(available_subjects) :
          available_subjects[i].time_slots = <<Mon(540, 660)>> /\ ~PassedFilter(i)

\* C6: create_optimal_schedule always returns: after a failure of a stage a result
\* with success = false, the error and a timestamp and no schedule, otherwise a
\* result with success = true, the schedule, the analysis and the totals.
C6_NeverPropagates ==
    /\ result.status # "raised"
    /\ pc = "done" =>
          /\ result.status = "returned"
          /\ result.has_timestamp
          /\ exc # "" => /\ ~result.success
                         /\ result.error = exc
                         /\ ~result.has_schedule
          /\ exc = "" => /\ result.success
                         /\ result.has_schedule
                         /\ result.schedule = final_schedule
                         /\ result.analysis = Analyze(impl, final_schedule, preferences)
                         /\ result.total_subjects = Len(final_schedule)
                         /\ result.total_credits = schedule_credits(final_schedule)

\* C6 witness: the ranking stage failed and the caller got a failure result.
C6_Witness ==
    /\ pc = "done"
    /\ exc = "ZeroDivisionError"
    /\ result.status = "returned"
    /\ ~result.success

NoSubjectsWarned(an) ==
    \E w \in 1..Len(an.warnings) :
        an.warnings[w].text \in {"No subjects could be scheduled with current constraints",
                                 "No subjects could be scheduled"}

\* C7, as stated: when the assembler returned and no subject is compatible with
\* the availability, the call returns success = true, an empty schedule and the
\* 'no subjects could be scheduled' warning, whatever the strategy.
C7_InfeasibleIsSuccess ==
    (/\ pc = "done"
     /\ exc \notin {"DatabaseError", "KeyError"}
     /\ available_subjects # <<>>
     /\ compatible_subjects = <<>>) =>
        /\ result.success
        /\ result.schedule = <<>>
        /\ NoSubjectsWarned(result.analysis)

\* --- C8 ---
Max(a, b) == IF a >= b THEN a ELSE b
Min(a, b) == IF a <= b THEN a ELSE b

\* C8: overlaps_with is symmetric, false for slots of different days, false for
\* same-day slots that only touch, true for same-day slots that share a time.
C8_OverlapProperties ==
    pc = "done" =>
        /\ overlap_ab = overlap_ba
        /\ slot_a.day # slot_b.day => ~overlap_ab
        /\ (slot_a.day = slot_b.day /\ slot_a.end_time = slot_b.start_time) => ~overlap_ab
        /\ (/\ slot_a.day = slot_b.day
            /\ slot_a.start_time < slot_a.end_time
            /\ slot_b.start_time < slot_b.end_time
            /\ Max(slot_a.start_time, slot_b.start_time)
                   < Min(slot_a.end_time, slot_b.end_time)) => overlap_ab

\* C8 witness: 09:00-10:30 against 10:00-11:00 on the same day overlaps.
C8_Witness ==
    /\ pc = "done"
    /\ slot_a = Mon(540, 630)
    /\ slot_b = Mon(600, 660)
    /\ overlap_ab
    /\ overlap_ba

\* --- C9 ---
SameSubjects(s, t) ==
    /\ Len(s) = Len(t)
    /\ {s[i].id : i \in 1..Len(s)} = {t[i].id : i \in 1..Len(t)}

\* credits descending, then difficulty ascending, then input order (the id of a
\* ranker input is its position in the input)
CreditsOrder(s) ==
    \A i, j \in 1..Len(s) :
        i < j =>
            \/ s[i].credits > s[j].credits
            \/ /\ s[i].credits = s[j].credits
               /\ \/ s[i].difficulty_level < s[j].difficulty_level
                  \/ /\ s[i].difficulty_level = s[j].difficulty_level
                     /\ s[i].id < s[j].id

\* C9: under high_value_credits the ranked list is the compatible list ordered by
\* credits descending, difficulty ascending, input order; with no conflicts and
\* subject_count at least the number of candidates the schedule is admitted in
\* that order.
C9_HighValueCredits ==
    preferences.strategy = "high_value_credits" =>
        /\ pc \in {"resolve", "analyze"} =>
              /\ SameSubjects(recommended_subjects, compatible_subjects)
              /\ CreditsOrder(recommended_subjects)
        /\ (pc = "analyze" /\ preferences.subject_count >= Len(compatible_subjects)) =>
              /\ final_schedule = recommended_subjects
              /\ \A i \in 1..(Len(final_schedule) - 1) :
                    final_schedule[i].credits >= final_schedule[i + 1].credits

\* C9 witness: credits [2,4,3] with difficulties [1,5,3] are admitted as [4,3,2].
C9_Witness ==
    /\ pc = "analyze"
    /\ preferences.strategy = "high_value_credits"
    /\ preferences.subject_count = 3
    /\ Len(compatible_subjects) = 3
    /\ [i \in 1..3 |-> compatible_subjects[i].credits] = <<2, 4, 3>>
    /\ [i \in 1..3 |-> compatible_subjects[i].difficulty_level] = <<1, 5, 3>>
    /\ [i \in 1..Len(final_schedule) |-> final_schedule[i].credits] = <<4, 3, 2>>

\* C10, as stated: with one catalog subject meeting 'Mon 09:00-10:00', Monday
\* available 09:00-12:00 and subject_count = 1, either implementation returns
\* that subject as the schedule, total_subjects = 1.
C10_MonMatchesMonday ==
    (/\ pc = "done"
     /\ catalog_ok
     /\ Len(catalog) = 1
     /\ catalog[1].schedule = Sched_Mon_9_10
     /\ preferences.uploaded_subjects = <<>>
     /\ preferences.weekly_availability = Avail_Mon_9_12
     /\ preferences.subject_count = 1) =>
        /\ result.success
        /\ Len(result.schedule) = 1
        /\ result.schedule[1].name = catalog[1].name
        /\ result.total_subjects = 1

\* --- C11 ---
\* minutes of all slots of all subjects of a schedule
SlotMinutes(schedule) ==
    LET slots == Concat([i \in 1..Len(schedule) |-> schedule[i].time_slots]) IN
    SumSeq([k \in 1..Len(slots) |-> slots[k].end_time - slots[k].start_time])

\* the two wordings of the warning (SubjectScheduler, SchedulerService)
OnlyWarned(an, n, m) ==
    \E k \in 1..Len(an.warnings) :
        /\ an.warnings[k].text \in {"Only N subjects scheduled out of requested M",
                                    "Only N subjects scheduled out of M"}
        /\ an.warnings[k].n = n
        /\ an.warnings[k].m = m

OverloadWarned(an) ==
    \E k \in 1..Len(an.warnings) :
        an.warnings[k].text \in
            {"Schedule exceeds 40 hours per week - consider reducing subjects",
             "Schedule exceeds 40 hours per week"}

C12_EmptySchedule ==
    (pc \in {"return", "done"} /\ final_schedule = <<>>) =>
        /\ analysis.total_subjects = 0
        /\ analysis.total_credits = 0
        /\ Len(analysis.warnings) = 1
        /\ analysis.warnings[1].text = "No subjects could be scheduled with current constraints"
        /\ analysis.recommendations = <<>>

\* --- C13 ---
\* C13, as stated: the assembled list never holds two subjects with the same id,
\* whatever the (distinct) catalog ids are, and the k-th subject of the list,
\* when it comes from an uploaded record, has id 1000 + (k - 1).
C13_UniqueIds ==
    pc = "filter" =>
        /\ \A i, j \in 1..Len(available_subjects) :
              i # j => available_subjects[i].id # available_subjects[j].id
        /\ \A k \in (Len(catalog) + 1)..Len(available_subjects) :
              available_subjects[k].id = 1000 + (k - 1)

\* --- C14 ---
WellFormed(seg) ==
    /\ seg.ntokens >= 2
    /\ Len(seg.pieces) = 2
    /\ seg.pieces[1] \in TimePieces
    /\ seg.pieces[2] \in TimePieces

Malformed(seg) == seg.ntokens >= 2 /\ Len(seg.pieces) >= 2 /\ ~WellFormed(seg)

\* the slots of the well-formed segments of a schedule string, in order
WellFormedSlots(str) ==
    LET segs == SelectSeq(str, WellFormed) IN
    [k \in 1..Len(segs) |->
        TimeSlot(segs[k].day, strptime(segs[k].pieces[1]), strptime(segs[k].pieces[2]))]

\* C14, as stated: the parser returns the slot of every well-formed segment of
\* the string, those after a malformed segment included, and raises nothing.
C14_SkipsOnlyMalformed ==
    pc = "filter" =>
        /\ exc = ""
        /\ available_subjects[1].time_slots = WellFormedSlots(catalog[1].schedule)

\* --- C15 ---
\* C15, as stated: in SchedulerService with prioritize_dependencies set, every
\* prerequisite of every admitted subject names a subject admitted before it.
C15_ServicePrerequisitesFirst ==
    (impl = "SchedulerService" /\ preferences.prioritize_dependencies) =>
        \A k \in 1..Len(final_schedule) :
            \A q \in 1..Len(final_schedule[k].prerequisites) :
                \E j \in 1..(k - 1) :
                    final_schedule[k].prerequisites[q] = <<final_schedule[j].name>>

\* --- C18 ---
LevelsOf(s) == {s[i].difficulty_level : i \in 1..Len(s)}

Ceil(a, b) == (a + b - 1) \div b

\* C18, as stated: under balanced_difficulty with subject_count >= 1 the ranked
\* list holds, of each
\* difficulty level of the compatible list, at most ceil(subject_count / number
\* of levels) subjects, the highest-credit ones of the level, by credits
\* descending within a level and levels ascending.
C18_BalancedDifficulty ==
    (/\ preferences.strategy = "balanced_difficulty"
     /\ preferences.subject_count >= 1
     /\ pc = "resolve"
     /\ compatible_subjects # <<>>) =>
        LET cap == Ceil(preferences.subject_count, Cardinality(LevelsOf(compatible_subjects)))
            ranked == recommended_subjects
        IN  /\ \A l \in LevelsOf(compatible_subjects) :
                  Cardinality({i \in 1..Len(ranked) : ranked[i].difficulty_level = l}) <= cap
            /\ \A i, j \in 1..Len(ranked) :
                  i < j => \/ ranked[i].difficulty_level < ranked[j].difficulty_level
                           \/ /\ ranked[i].difficulty_level = ranked[j].difficulty_level
                              /\ ranked[i].credits >= ranked[j].credits
            /\ \A i \in 1..Len(ranked) :
                  \E j \in 1..Len(compatible_subjects) : compatible_subjects[j] = ranked[i]
            /\ \A i \in 1..Len(ranked), j \in 1..Len(compatible_subjects) :
                  (/\ compatible_subjects[j].difficulty_level = ranked[i].difficulty_level
                   /\ \A k \in 1..Len(ranked) : ranked[k] # compatible_subjects[j])
                      => compatible_subjects[j].credits <= ranked[i].credits

\* --- C19 ---
\* how many subjects of the compatible list name the subject as a prerequisite
Dependents(name) ==
    Cardinality({j \in 1..Len(compatible_subjects) :
                    \E q \in 1..Len(compatible_subjects[j].prerequisites) :
                        compatible_subjects[j].prerequisites[q] = <<name>>})

DependentsOrder(s) ==
    \A i, j \in 1..Len(s) :
        i < j =>
            \/ Dependents(s[i].name) > Dependents(s[j].name)
            \/ /\ Dependents(s[i].name) = Dependents(s[j].name)
               /\ \/ s[i].difficulty_level < s[j].difficulty_level
                  \/ /\ s[i].difficulty_level = s[j].difficulty_level
                     /\ s[i].id < s[j].id

\* C19: under clear_dependencies the ranked list is the compatible list ordered
\* by the number of compatible subjects naming the candidate as a prerequisite,
\* descending, then difficulty ascending, then input order.
C19_ClearDependencies ==
    (preferences.strategy = "clear_dependencies" /\ pc \in {"resolve", "analyze"}) =>
        /\ SameSubjects(recommended_subjects, compatible_subjects)
        /\ DependentsOrder(recommended_subjects)

\* C19 witness: the second candidate, named by the two others, is ranked first;
\* the others, named by nobody and equally difficult, keep their input order.
C19_Witness ==
    /\ preferences.strategy = "clear_dependencies"
    /\ pc = "resolve"
    /\ Len(compatible_subjects) = 3
    /\ Dependents("B") = 2
    /\ Dependents("A") = 0
    /\ Dependents("C") = 0
    /\ compatible_subjects[1].difficulty_level = compatible_subjects[3].difficulty_level
    /\ [i \in 1..3 |-> recommended_subjects[i].name] = <<"B", "A", "C">>

\* --- C20 ---
Interest(name) ==
    IF \E k \in 1..Len(student_preferences) : student_preferences[k].subject_name = name
    THEN student_preferences[CHOOSE k \in 1..Len(student_preferences) :
             /\ student_preferences[k].subject_name = name
             /\ \A m \in (k + 1)..Len(student_preferences) :
                    student_preferences[m].subject_name # name].interest_level
    ELSE 0

InterestOrder(s) ==
    \A i, j \in 1..Len(s) :
        i < j =>
            \/ Interest(s[i].name) > Interest(s[j].name)
            \/ /\ Interest(s[i].name) = Interest(s[j].name)
               /\ \/ s[i].credits > s[j].credits
                  \/ s[i].credits = s[j].credits /\ s[i].id < s[j].id

\* C20, as stated: under interest_based, and under a strategy value that is none
\* of the five, either implementation ranks the compatible list by recorded
\* interest descending (0 without a preference), then credits descending, then
\* input order.
C20_InterestBased ==
    (/\ preferences.strategy \notin (Strategies \ {"interest_based"})
     /\ pc \in {"resolve", "analyze"}) =>
        /\ SameSubjects(recommended_subjects, compatible_subjects)
        /\ InterestOrder(recommended_subjects)

\* --- C16 ---
RowsOf(table, s) == {row \in table : row.student_id = s}

\* a POST of client c gets its response in this step
PostAnswered(c) ==
    /\ req[c].method = "POST"
    /\ req[c].pc \in {"handler", "create"}
    /\ req'[c].pc = "done"

ValidBearer(h) ==
    h.present /\ h.scheme = "Bearer" /\ h.has_space /\ h.second.kind = "valid"

\* C17: a handler runs only for a request whose header is 'Bearer ' followed by
\* a token that verifies, and then with g.current_student_id the student id of
\* that token; every other request is answered 401, its handler does not run,
\* and the step that answers it leaves the table as it is.
C17_RequireAuth ==
    /\ [](\A c \in Clients :
            /\ (req[c].pc \in {"handler", "create"} \/ req[c].handler_ran) =>
                   /\ ValidBearer(req[c].header)
                   /\ req[c].g_current_student_id = req[c].header.second.student_id
            /\ (req[c].pc = "done" /\ ~ValidBearer(req[c].header)) =>
                   /\ req[c].status = 401
                   /\ ~req[c].handler_ran)
    /\ [][\A c \in Clients :
            (req'[c] # req[c] /\ ~ValidBearer(req'[c].header)) =>
                /\ grade_horaria' = grade_horaria
                /\ grade_id_seq' = grade_id_seq]_vars

\* C17 witness: with a grade horaria in the table, a DELETE carrying a token
\* with a bad signature was answered 401.
C17_Witness ==
    /\ grade_horaria # {}
    /\ req["c1"].pc = "done"
    /\ req["c1"].method = "DELETE"
    /\ req["c1"].header.second.kind = "forged"
    /\ req["c1"].status = 401

\* --- C21 ---
DurationOrder(s) ==
    \A i, j \in 1..Len(s) :
        i < j =>
            \/ SlotMinutes(<<s[i]>>) < SlotMinutes(<<s[j]>>)
            \/ /\ SlotMinutes(<<s[i]>>) = SlotMinutes(<<s[j]>>)
               /\ \/ s[i].credits > s[j].credits
                  \/ s[i].credits = s[j].credits /\ s[i].id < s[j].id

\* C21: under maximize_subjects the ranked list is the compatible list ordered
\* by the total duration of the subject's slots ascending (no slots: 0), then
\* credits descending, then input order.
C21_MaximizeSubjects ==
    (preferences.strategy = "maximize_subjects" /\ pc \in {"resolve", "analyze"}) =>
        /\ SameSubjects(recommended_subjects, compatible_subjects)
        /\ DurationOrder(recommended_subjects)

\* C21 witness: candidates of 2 h, 0 h (credits 2), 0 h (credits 3) are ranked
\* third, second, first.
C21_Witness ==
    /\ preferences.strategy = "maximize_subjects"
    /\ pc = "resolve"
    /\ Len(compatible_subjects) = 3
    /\ [i \in 1..3 |-> SlotMinutes(<<compatible_subjects[i]>>)] = <<120, 0, 0>>
    /\ [i \in 1..3 |-> compatible_subjects[i].credits] = <<3, 2, 3>>
    /\ [i \in 1..3 |-> recommended_subjects[i].name] = <<"C", "B", "A">>

\* --- C22 ---
Admitted(i) ==
    \E k \in 1..Len(final_schedule) : final_schedule[k].id = recommended_subjects[i].id

IsSubsequence(t, s) ==
    \E f \in [1..Len(t) -> 1..Len(s)] :
        /\ \A k \in 1..Len(t) : t[k] = s[f[k]]
        /\ \A k \in 1..(Len(t) - 1) : f[k] < f[k + 1]

\* C23: the availability filter returns a subsequence of its input, and every
\* input subject without time slots is in it, whatever the availability.
C23_FilterSubsequence ==
    pc = "strategy" =>
        /\ IsSubsequence(compatible_subjects, available_subjects)
        /\ \A i \in 1..Len(available_subjects) :
              available_subjects[i].time_slots = <<>> => PassedFilter(i)

\* C23 witness: no day is available; of three subjects the first and the third,
\* which have no slots, are returned in that order.
C23_Witness ==
    /\ pc = "strategy"
    /\ \A k \in 1..Len(preferences.weekly_availability) :
          ~preferences.weekly_availability[k].available
    /\ Len(available_subjects) = 3
    /\ available_subjects[2].time_slots # <<>>
    /\ Len(compatible_subjects) = 2
    /\ compatible_subjects[1] = available_subjects[1]
    /\ compatible_subjects[2] = available_subjects[3]

\* --- C24 ---
\* C24, as stated: every TimeSlot the parser returns has start < end, so a
\* segment whose end is not after its start yields no TimeSlot.
C24_StartBeforeEnd ==
    pc = "filter" =>
        \A i \in 1..Len(available_subjects) :
            \A k \in 1..Len(available_subjects[i].time_slots) :
                available_subjects[i].time_slots[k].start_time
                    < available_subjects[i].time_slots[k].end_time

\* --- C25 ---
ElementsOf(t, s) == \A k \in 1..Len(t) : \E i \in 1..Len(s) : t[k] = s[i]

\* C25: no step of create_optimal_schedule changes the request, the catalog
\* rows or the preference rows; the list a stage has returned is not changed by
\* the stages after it; and the subjects of every later list are subjects of
\* the list before it, field by field.
C25_InputsUnchanged ==
    /\ [][/\ preferences' = preferences
          /\ catalog' = catalog
          /\ student_preferences' = student_preferences
          /\ pc # "assemble" => available_subjects' = available_subjects
          /\ pc \notin {"assemble", "filter"} => compatible_subjects' = compatible_subjects
          /\ pc \notin {"assemble", "filter", "strategy"} =>
                 recommended_subjects' = recommended_subjects]_vars
    /\ [](/\ ElementsOf(compatible_subjects, available_subjects)
          /\ ElementsOf(recommended_subjects, compatible_subjects)
          /\ ElementsOf(final_schedule, recommended_subjects)
          /\ ElementsOf(result.schedule, available_subjects))

\* C25 witness: a run that returned a schedule after the filter had dropped a
\* subject and the ranker had put the remaining ones in another order.
C25_Witness ==
    /\ pc = "done"
    /\ result.success
    /\ result.schedule # <<>>
    /\ Len(compatible_subjects) < Len(available_subjects)
    /\ Len(recommended_subjects) = Len(compatible_subjects)
    /\ recommended_subjects # compatible_subjects

\* --- C26 ---
\* some slot of the candidate properly intersects a slot of an admitted subject
ClashesWithAdmitted(subject) ==
    \E k \in 1..Len(final_schedule) : SubjectsClash(subject, final_schedule[k])

\* every prerequisite name of the candidate is the name of an admitted subject
PrerequisitesAdmitted(subject) ==
    \A q \in 1..Len(subject.prerequisites) :
        \E k \in 1..Len(final_schedule) :
            <<final_schedule[k].name>> = subject.prerequisites[q]

NoDuplicates(s) == \A i, j \in 1..Len(s) : i # j => s[i].id # s[j].id

\* C26: in SubjectScheduler the schedule is the greedy selection. It is always a
\* duplicate-free subsequence of the ranked list, and a candidate examined while
\* fewer than subject_count subjects are admitted is appended by that step if and
\* only if none of its slots overlaps a slot of an admitted subject and
\* (prioritize_dependencies is false or all its prerequisite names are admitted).
C26_GreedySelection ==
    /\ [](impl = "SubjectScheduler" =>
            /\ IsSubsequence(final_schedule, recommended_subjects)
            /\ NoDuplicates(final_schedule))
    /\ [][(/\ impl = "SubjectScheduler"
           /\ pc = "resolve"
           /\ idx <= Len(recommended_subjects)
           /\ Len(final_schedule) < preferences.subject_count) =>
              LET subject == recommended_subjects[idx]
                  eligible == /\ ~ClashesWithAdmitted(subject)
                              /\ (~preferences.prioritize_dependencies
                                     \/ PrerequisitesAdmitted(subject))
              IN  /\ eligible => final_schedule' = Append(final_schedule, subject)
                  /\ ~eligible => final_schedule' = final_schedule]_vars

\* C26 witness: with prioritize_dependencies off, a candidate whose prerequisite is
\* in no list was admitted, a candidate overlapping an admitted one was left out,
\* and the pass ended below subject_count.
C26_Witness ==
    /\ impl = "SubjectScheduler"
    /\ ~preferences.prioritize_dependencies
    /\ pc = "analyze"
    /\ Len(recommended_subjects) = 3
    /\ Len(final_schedule) = 2
    /\ Len(final_schedule) < preferences.subject_count
    /\ \E k \in 1..2 : final_schedule[k].prerequisites = <<<<"Z">>>>
    /\ \E i \in 1..3 : ~Admitted(i) /\ ClashesWithAdmitted(recommended_subjects[i])

\* --- C27 ---
RECURSIVE SlotsOf(_)
\* the time slots of the subjects of a list, in the order of the list
SlotsOf(schedule) ==
    IF schedule = <<>> THEN <<>>
    ELSE Head(schedule).time_slots \o SlotsOf(Tail(schedule))

UsedSlotsAreAdmittedSlots == used_time_slots = SlotsOf(final_schedule)

\* C27: at every step of the greedy pass used_time_slots is the concatenation of
\* the admitted subjects' time slots in admission order, and no two entries at
\* different positions of used_time_slots overlap, two slots of one subject included.
C27_UsedSlotsDisjoint ==
    /\ UsedSlotsAreAdmittedSlots
    /\ \A i, j \in 1..Len(used_time_slots) :
          i # j => ~ProperlyIntersect(used_time_slots[i], used_time_slots[j])

\* --- C28 ---
OtherImplementation == CHOOSE im \in Implementations : im # impl

FullWeekdayNames(schedule_str) ==
    \A i \in 1..Len(schedule_str) : schedule_str[i].day \in {"Monday", "Tuesday"}

SameRequestComparable ==
    /\ ~preferences.prioritize_dependencies
    /\ preferences.strategy \in {"maximize_subjects", "clear_dependencies",
                                  "high_value_credits"}
    /\ \A i \in 1..Len(catalog) : FullWeekdayNames(catalog[i].schedule)
    /\ \A i \in 1..Len(preferences.uploaded_subjects) :
          FullWeekdayNames(preferences.uploaded_subjects[i].schedule)

IdsAndNames(schedule) ==
    [k \in 1..Len(schedule) |-> <<schedule[k].id, schedule[k].name>>]

C29_RaceKeepsOneGrade ==
    /\ \A s \in Students : Cardinality(RowsOf(grade_horaria, s)) <= 1
    /\ \A c, d \in Clients :
          (/\ c # d
           /\ req[c].pc = "done" /\ req[d].pc = "done"
           /\ req[c].method = "POST" /\ req[d].method = "POST"
           /\ req[c].g_current_student_id = req[d].g_current_student_id) =>
              ~(req[c].status = 201 /\ req[d].status = 201)

\* --- C30 ---
\* the routes that name a grade horaria by its id
ByIdMethods == {"GET_BY_ID", "PUT", "DELETE", "POST_SUBJECT", "DELETE_SUBJECT"}

\* a request of client c that names a grade by id gets its response in this step
ByIdAnswered(c) ==
    /\ req[c].method \in ByIdMethods
    /\ req[c].pc = "handler"
    /\ req'[c].pc = "done"

OwnerOf(grade_id) == {row.student_id : row \in {g \in grade_horaria : g.id = grade_id}}

====
